---- MODULE Spec2Model ----
(***************************************************************************)
(* Model of the assignment engine of Center_joballocation: the shared     *)
(* base class (compatibility index, priority scorer, validator), the      *)
(* greedy + local-search strategy (HeuristicOptimizer) and the            *)
(* deferred-acceptance strategy (DeferredAcceptanceOptimizer).            *)
(*                                                                         *)
(* Operator ids and task ids are the positions of the operator / task in  *)
(* the input lists (ids are unique, non-empty strings in the program).    *)
(* Times of day are minutes since midnight; time.hour is minute \div 60.  *)
(* Scores are floats in the program; here they are integers in units of   *)
(* 1/ScoreScale, which represents every term of every score exactly.      *)
(***************************************************************************)
EXTENDS Integers, Sequences, FiniteSets, TLC

\* ------------------------------------------------------------------ bounds
MaxOps == 2
MaxTasks == 2
MaxBudget == 1
MaxCap == 2
MaxMatchTasks == 3
MaxMatchCap == 4
MaxAssignments == 2
MaxCalls == 2
MaxRunCalls == 3
MaxOccupies == 3
MaxBestCalls == 2

\* ------------------------------------------------------- program constants
max_iterations_default == 1000
EarlinessReference == 17
HoursMin == 1
HoursMax == 8

ScoreScale == 60 * 100
\* random.random() * 0.01 lies in [0, 0.01)
JitterRange == ScoreScale \div 100

NoSkill == "None"
NoDeadline == 0 - 1000

Skills == {"X"}

\* ------------------------------------------------------------ input domain
\* Working windows the inputs are drawn from: 09:00-17:00 and 09:30-14:00.
Windows == {<<9 * 60, 17 * 60>>, <<9 * 60 + 30, 14 * 60>>}
InputHours == {4, 5}
InputPriorities == {"MEDIUM", "HIGH"}
InputSkills == {NoSkill, "X"}

Operator(w, sk) == [start_min |-> w[1], end_min |-> w[2], skill_set |-> sk]

Task(h, p, d, sk) ==
    [required_hours |-> h, priority |-> p, deadline_days |-> d, required_skill |-> sk]

\* Task.__post_init__ rejects required_hours outside 1..8.
TaskConstructs(h) == h >= HoursMin /\ h <= HoursMax

OperatorKinds == {Operator(w, sk) : w \in Windows, sk \in SUBSET Skills}

TaskKinds ==
    {Task(h, p, NoDeadline, sk) :
        h \in {x \in InputHours : TaskConstructs(x)}, p \in InputPriorities, sk \in InputSkills}

OperatorLists == UNION {[1..n -> OperatorKinds] : n \in 0..MaxOps}
TaskLists == UNION {[1..n -> TaskKinds] : n \in 0..MaxTasks}

Strategies == {"heuristic", "deferred_acceptance"}
ImprovementBudgets == 0..MaxBudget
IterationCaps == (1..MaxCap) \cup {max_iterations_default}

\* ------------------------------------------------------------------- state
VARIABLES
    strategy,                \* which OptimizationAlgorithm subclass was constructed
    improvement_iterations,  \* HeuristicOptimizer.improvement_iterations
    max_iterations,          \* DeferredAcceptanceOptimizer.max_iterations
    operators, tasks,        \* self.operators, self.tasks
    skill_matching,          \* self.skill_matching: task id -> list of operator ids
    pc,                      \* position of the run
    result,                  \* assignments of the ScheduleResult being built / returned
    operator_schedules,      \* operator id -> list of free (start, end) slots
    sorted_tasks, gi,        \* greedy: task order and loop position
    best_score, iteration,   \* improve: best score so far; loop counter (both loops)
    task_preferences, operator_preferences,
    matches,                 \* dict operator_id -> task_id, as a list of pairs
    rejected_by, free_tasks,
    task_operator_matches,   \* dict task_id -> operator_id returned by the loop
    validated,               \* assignments of the ScheduleResult given to validate_result
    errors,                  \* the error list validate_result returned last
    calls,                   \* number of validate_result calls made on that result
    scheduler_operators, scheduler_tasks,   \* JobScheduler.operators, .tasks
    status,                  \* JobScheduler.status
    current_algorithm,       \* JobScheduler.current_algorithm
    results,                 \* JobScheduler.results: dict algorithm type -> assignments
    execution_log,           \* JobScheduler.execution_log
    outcome,                 \* how the last run_algorithm call left: type asked and exit
    run_calls,               \* number of run_algorithm calls made
    previous_result,         \* assignments the previous run() of this object returned
    replayed,                \* whether run() was called again after it had returned
    \* a second strategy object (a HeuristicOptimizer) given the same lists:
    peer_improvement_iterations, peer_pc, peer_result, peer_operator_schedules,
    peer_gi, peer_best_score, peer_iteration,
    improve_input,           \* assignments of the result _improve_solution was given
    improved_result,         \* what _try_improvements returned last (line 154)
    days_passed,             \* whole days the clock advanced since setup
    comparison_results,      \* ScheduleComparison.results: dict algorithm type -> result
    metric, best_algorithm,  \* last get_best_algorithm call: argument and return value
    best_calls,              \* number of get_best_algorithm calls made
    free_list,               \* free (start, end) list of one operator, given to the
                             \* schedule update directly
    occupied                 \* the (start, end) ranges the update was asked for, in order

vars == <<strategy, improvement_iterations, max_iterations, operators, tasks,
          skill_matching, pc, result, operator_schedules, sorted_tasks, gi,
          best_score, iteration, task_preferences, operator_preferences, matches,
          rejected_by, free_tasks, task_operator_matches, validated, errors, calls,
          scheduler_operators, scheduler_tasks, status, current_algorithm, results,
          execution_log, outcome, run_calls, previous_result, replayed,
          peer_improvement_iterations, peer_pc, peer_result, peer_operator_schedules,
          peer_gi, peer_best_score, peer_iteration, improve_input, improved_result,
          days_passed, comparison_results, metric, best_algorithm, best_calls, free_list,
          occupied>>

inputVars == <<strategy, improvement_iterations, max_iterations, operators, tasks,
               skill_matching>>
heuristicVars == <<sorted_tasks, gi, best_score>>
matchingVars == <<task_preferences, operator_preferences, matches, rejected_by,
                  free_tasks, task_operator_matches>>
validatorVars == <<validated, errors, calls>>
\* state of the callers of the strategy object
schedulerVars == <<scheduler_operators, scheduler_tasks, status, current_algorithm,
                   results, execution_log, outcome, run_calls>>
replayVars == <<previous_result, replayed>>
peerVars == <<peer_improvement_iterations, peer_pc, peer_result,
              peer_operator_schedules, peer_gi, peer_best_score, peer_iteration>>
improveVars == <<improve_input, improved_result, days_passed>>
comparisonVars == <<comparison_results, metric, best_algorithm, best_calls>>
intervalVars == <<free_list, occupied>>
\* state of calls made to single methods
methodVars == <<improveVars, comparisonVars, intervalVars>>
callerVars == <<validatorVars, schedulerVars, replayVars, peerVars, methodVars>>

\* ----------------------------------------------------------------- helpers
OperatorIds == 1..Len(operators)
TaskIds == 1..Len(tasks)

Range(s) == {s[i] : i \in 1..Len(s)}

RECURSIVE SumSeq(_)
SumSeq(s) == IF s = <<>> THEN 0 ELSE Head(s) + SumSeq(Tail(s))

RECURSIVE Concat(_)
Concat(ss) == IF ss = <<>> THEN <<>> ELSE Head(ss) \o Concat(Tail(ss))

\* range(a, b) of Python as a sequence
PyRange(a, b) == [i \in 1..(IF b > a THEN b - a ELSE 0) |-> a + i - 1]

\* Python's list.sort / sorted with reverse=True is stable: equal keys keep
\* their input order.  keys is the sequence of keys of the items.
SortedIndicesDesc(keys) ==
    LET n == Len(keys)
        rank(i) == 1 + Cardinality({j \in 1..n :
                        keys[j] > keys[i] \/ (keys[j] = keys[i] /\ j < i)})
    IN [p \in 1..n |-> CHOOSE i \in 1..n : rank(i) = p]

\* sorted(list of (start, end) tuples): ascending, lexicographic
TupleLess(a, b) == a[1] < b[1] \/ (a[1] = b[1] /\ a[2] < b[2])

SortedTuples(s) ==
    LET n == Len(s)
        rank(i) == 1 + Cardinality({j \in 1..n :
                        TupleLess(s[j], s[i]) \/ (s[j] = s[i] /\ j < i)})
    IN [p \in 1..n |-> s[CHOOSE i \in 1..n : rank(i) = p]]

\* ---------------------------------------------------------- models/operator
hour(m) == m \div 60

\* Operator.get_available_hours_in_minutes
get_available_hours_in_minutes(op) == op.end_min - op.start_min

has_skill(op, skill) == skill \in op.skill_set

\* -------------------------------------------------------- algorithms/base
\* Fault injection: the required skill is not looked at: every operator is eligible
EligibleSeqAnySkill(t, ops) == [o \in 1..Len(ops) |-> o]

\* Fault injection: an eligible operator is put at the front of the list instead
\* of appended (lines 64, 67)
EligibleSeqNewestFirst(t, ops) ==
    LET keep(o) == IF t.required_skill = NoSkill THEN TRUE
                   ELSE has_skill(ops[o], t.required_skill)
        F[i \in 0..Len(ops)] ==
            IF i = 0 THEN <<>>
            ELSE IF keep(i) THEN <<i>> \o F[i - 1] ELSE F[i - 1]
    IN F[Len(ops)]

\* _compute_skill_matching: eligible operator ids per task, in operator order
EligibleSeq(t, ops) ==
    LET keep(o) == IF t.required_skill = NoSkill THEN TRUE
                   ELSE has_skill(ops[o], t.required_skill)
        F[i \in 0..Len(ops)] ==
            IF i = 0 THEN <<>>
            ELSE IF keep(i) THEN Append(F[i - 1], i) ELSE F[i - 1]
    IN F[Len(ops)]

compute_skill_matching(ops, ts) == [t \in 1..Len(ts) |-> EligibleSeq(ts[t], ops)]

can_assign(operator_id, task_id) ==
    IF task_id \notin DOMAIN skill_matching THEN FALSE
    ELSE IF operator_id \notin Range(skill_matching[task_id]) THEN FALSE
    ELSE TRUE

\* calculate_priority_score, in units of 1/ScoreScale
PriorityBase(p) ==
    CASE p = "LOW" -> 1 * ScoreScale
      [] p = "MEDIUM" -> 2 * ScoreScale
      [] p = "HIGH" -> 3 * ScoreScale
      [] p = "URGENT" -> 4 * ScoreScale
      [] OTHER -> 2 * ScoreScale

DeadlineBonus(d) ==
    IF d = NoDeadline THEN 0
    ELSE IF d <= 1 THEN 3 * ScoreScale
    ELSE IF d <= 3 THEN 2 * ScoreScale
    ELSE IF d <= 7 THEN 1 * ScoreScale
    ELSE 0

\* days_until_deadline reads datetime.now() at every call (task.py 56-58):
\* deadline_days is its value at setup, days_passed what the clock took off
days_until_deadline(t) ==
    IF t.deadline_days = NoDeadline THEN NoDeadline ELSE t.deadline_days - days_passed

calculate_priority_score(t) ==
    PriorityBase(t.priority) + DeadlineBonus(days_until_deadline(t))
        + (IF t.required_hours <= 2 THEN ScoreScale \div 2 ELSE 0)

Assignment(o, t, s, d) ==
    [operator_id |-> o, task_id |-> t, start_hour |-> s, duration_hours |-> d]

end_hour(a) == a.start_hour + a.duration_hours

\* ScheduleResult | None of the improvement moves
NoneResult == [some |-> FALSE, assignments |-> <<>>]
SomeResult(as) == [some |-> TRUE, assignments |-> as]

\* --------------------------------------------------- algorithms/heuristic
\* _greedy_assignment, lines 36-41 (and _create_schedule_result, 214-218):
\* one slot per operator, from the hour fields of its window
InitialSchedules(ops) ==
    [o \in 1..Len(ops) |-> << <<hour(ops[o].start_min), hour(ops[o].end_min)>> >>]

\* _find_available_slots: start hours in the gaps between consecutive
\* entries of the sorted schedule
_find_available_slots(schedule, duration) ==
    LET sorted_schedule == SortedTuples(schedule)
        gap(i) ==
            LET current_end == sorted_schedule[i][2]
                next_start == sorted_schedule[i + 1][1]
            IN IF next_start - current_end >= duration
               THEN PyRange(current_end, next_start - duration + 1)
               ELSE <<>>
    IN Concat([i \in 1..(Len(sorted_schedule) - 1) |-> gap(i)])

\* _calculate_assignment_score
_calculate_assignment_score(op, t, start_hour) ==
    calculate_priority_score(t)
        + (EarlinessReference - start_hour) * (ScoreScale \div 10)
        + get_available_hours_in_minutes(op) * (ScoreScale \div (60 * 20))

NoBest == [operator |-> "None", start |-> "None", score |-> 0 - ScoreScale]

RECURSIVE BestOf(_, _)
BestOf(cands, best) ==
    IF cands = <<>> THEN best
    ELSE BestOf(Tail(cands), IF Head(cands).score > best.score THEN Head(cands) ELSE best)

\* _find_best_assignment: first maximum over operators (input order) and
\* their available slots; NoBest when nothing scored above -1
_find_best_assignment(task_id, schedules) ==
    LET perOperator(o) ==
            IF ~can_assign(o, task_id) THEN <<>>
            ELSE LET available_slots ==
                         _find_available_slots(schedules[o], tasks[task_id].required_hours)
                 IN [k \in 1..Len(available_slots) |->
                        [operator |-> o, start |-> available_slots[k],
                         score |-> _calculate_assignment_score(
                                       operators[o], tasks[task_id], available_slots[k])]]
    IN BestOf(Concat([o \in 1..Len(operators) |-> perOperator(o)]), NoBest)

\* Fault injection: the piece after the range is appended before the piece in
\* front of it (lines 137-140 in the other order)
_update_operator_schedule_swapped(schedule, start_hour, end_hour_) ==
    LET piece(slot) ==
            IF start_hour >= slot[1] /\ end_hour_ <= slot[2]
            THEN (IF end_hour_ < slot[2] THEN << <<end_hour_, slot[2]>> >> ELSE <<>>)
                 \o (IF start_hour > slot[1] THEN << <<slot[1], start_hour>> >> ELSE <<>>)
            ELSE <<slot>>
    IN Concat([i \in 1..Len(schedule) |-> piece(schedule[i])])

\* _update_operator_schedule (and _update_schedule of deferred acceptance,
\* which is the same code): every slot containing [start, end) is replaced
\* by its residual pieces
_update_operator_schedule(schedule, start_hour, end_hour_) ==
    LET piece(slot) ==
            IF start_hour >= slot[1] /\ end_hour_ <= slot[2]
            THEN (IF start_hour > slot[1] THEN << <<slot[1], start_hour>> >> ELSE <<>>)
                 \o (IF end_hour_ < slot[2] THEN << <<end_hour_, slot[2]>> >> ELSE <<>>)
            ELSE <<slot>>
    IN Concat([i \in 1..Len(schedule) |-> piece(schedule[i])])

\* _evaluate_solution
_evaluate_solution(as) ==
    IF as = <<>> THEN 0
    ELSE LET used == {as[i].operator_id : i \in 1..Len(as)}
             operator_hours(o) ==
                 SumSeq([i \in 1..Len(as) |->
                            IF as[i].operator_id = o THEN as[i].duration_hours ELSE 0])
             penalty(o) ==
                 LET over == operator_hours(o) * 60
                                 - get_available_hours_in_minutes(operators[o])
                 IN IF over > 0 THEN over * ((20 * ScoreScale) \div 60) ELSE 0
             RECURSIVE Penalties(_)
             Penalties(S) ==
                 IF S = {} THEN 0
                 ELSE LET o == CHOOSE x \in S : TRUE IN penalty(o) + Penalties(S \ {o})
         IN Len(as) * 10 * ScoreScale
              + SumSeq([i \in 1..Len(as) |-> calculate_priority_score(tasks[as[i].task_id])])
              - Penalties(used)

\* _is_valid_assignment: no time conflict with another assignment of the same
\* operator; skip_index = 0 stands for the default -1 (positions are 1-based)
_is_valid_assignment(a, other_assignments, skip_index) ==
    \A i \in 1..Len(other_assignments) :
        LET other == other_assignments[i] IN
        (skip_index >= 1 /\ i = skip_index)
        \/ other.operator_id # a.operator_id
        \/ (end_hour(a) <= other.start_hour \/ a.start_hour >= end_hour(other))

SelectSeqNe(as, a) == SelectSeq(as, LAMBDA x : x # a)

\* first element of a sequence of candidate results that is not None
RECURSIVE FirstSome(_)
FirstSome(cs) ==
    IF cs = <<>> THEN NoneResult
    ELSE IF Head(cs).some THEN Head(cs) ELSE FirstSome(Tail(cs))

\* _try_swap_assignments with random.sample giving (idx1, idx2)
_try_swap_assignments(as, idx1, idx2) ==
    LET assignment1 == as[idx1]
        assignment2 == as[idx2]
        new_assignment1 == Assignment(assignment2.operator_id, assignment1.task_id,
                                      assignment1.start_hour, assignment1.duration_hours)
        new_assignment2 == Assignment(assignment1.operator_id, assignment2.task_id,
                                      assignment2.start_hour, assignment2.duration_hours)
    IN IF _is_valid_assignment(new_assignment1, as, idx1)
          /\ _is_valid_assignment(new_assignment2, as, idx2)
       THEN SomeResult([i \in 1..Len(as) |->
                IF i = idx1 THEN new_assignment1
                ELSE IF i = idx2 THEN new_assignment2 ELSE as[i]])
       ELSE NoneResult

\* _try_move_assignment with random.choice giving as[k]
_try_move_assignment(as, k) ==
    LET assignment == as[k]
        operator == operators[assignment.operator_id]
        work_start == hour(operator.start_min)
        work_end == hour(operator.end_min)
        starts == PyRange(work_start, work_end - assignment.duration_hours + 1)
        other_assignments == SelectSeqNe(as, assignment)
        try(new_start_hour) ==
            LET new_assignment == Assignment(assignment.operator_id, assignment.task_id,
                                             new_start_hour, assignment.duration_hours)
            IN IF new_start_hour # assignment.start_hour
                  /\ _is_valid_assignment(new_assignment, other_assignments, 0)
               THEN SomeResult(Append(other_assignments, new_assignment))
               ELSE NoneResult
    IN FirstSome([i \in 1..Len(starts) |-> try(starts[i])])

\* _try_reassign_task with random.choice giving as[k]
_try_reassign_task(as, k) ==
    LET assignment == as[k]
        task_id == assignment.task_id
        other_assignments == SelectSeqNe(as, assignment)
        perOperator(o) ==
            IF o = assignment.operator_id \/ ~can_assign(o, task_id) THEN <<>>
            ELSE LET work_start == hour(operators[o].start_min)
                     work_end == hour(operators[o].end_min)
                     starts == PyRange(work_start,
                                       work_end - tasks[task_id].required_hours + 1)
                     try(start_hour) ==
                         LET new_assignment == Assignment(o, task_id, start_hour,
                                                   tasks[task_id].required_hours)
                         IN IF _is_valid_assignment(new_assignment, other_assignments, 0)
                            THEN SomeResult(Append(other_assignments, new_assignment))
                            ELSE NoneResult
                 IN [i \in 1..Len(starts) |-> try(starts[i])]
    IN FirstSome(Concat([o \in 1..Len(operators) |-> perOperator(o)]))

\* _try_improvements: the set of values it can return, over the random picks
ReassignOutcomes(as) == {_try_reassign_task(as, k) : k \in 1..Len(as)}

MoveOutcomes(as) ==
    UNION {IF _try_move_assignment(as, k).some
           THEN {_try_move_assignment(as, k)}
           ELSE ReassignOutcomes(as) : k \in 1..Len(as)}

_try_improvements(as) ==
    IF as = <<>> THEN {NoneResult}
    ELSE IF Len(as) >= 2
    THEN UNION {IF _try_swap_assignments(as, p[1], p[2]).some
                THEN {_try_swap_assignments(as, p[1], p[2])}
                ELSE MoveOutcomes(as) :
                    p \in {q \in (1..Len(as)) \X (1..Len(as)) : q[1] # q[2]}}
    ELSE MoveOutcomes(as)

\* ------------------------------------------- algorithms/deferred_acceptance
\* Python dicts keep insertion order: a dict is a sequence of <<key, value>>
DictHas(d, k) == \E i \in 1..Len(d) : d[i][1] = k
DictGet(d, k) == d[CHOOSE i \in 1..Len(d) : d[i][1] = k][2]
DictSet(d, k, v) ==
    IF DictHas(d, k)
    THEN [i \in 1..Len(d) |-> IF d[i][1] = k THEN <<k, v>> ELSE d[i]]
    ELSE Append(d, <<k, v>>)

\* _calculate_task_operator_preference without the random term
TaskOperatorBase(t, op) ==
    get_available_hours_in_minutes(op) * (ScoreScale \div (60 * 10))
        + (IF t.required_skill \in op.skill_set THEN 10 * ScoreScale ELSE 0)

\* _calculate_operator_task_preference without the random term
OperatorTaskBase(op, t) ==
    calculate_priority_score(t)
        + (IF t.required_hours * 60 <= get_available_hours_in_minutes(op)
           THEN (get_available_hours_in_minutes(op) - t.required_hours * 60)
                    * (ScoreScale \div (60 * 10))
           ELSE 0)

\* The lists that sorting items by base + random.random() * 0.01, descending,
\* can give: an item stands before another only if its base score is less
\* than JitterRange below the other's.  base is the sequence of base scores.
JitterOrders(items, base) ==
    LET n == Len(items)
    IN {[i \in 1..n |-> items[f[i]]] :
            f \in {g \in Permutations(1..n) :
                      \A a \in 1..n : \A b \in 1..n :
                          a < b => base[g[b]] - base[g[a]] < JitterRange}}

\* all sequences s of length Len(choices) with s[i] \in choices[i]
RECURSIVE ProductOf(_)
ProductOf(choices) ==
    IF choices = <<>> THEN {<<>>}
    ELSE {<<h>> \o r : h \in Head(choices), r \in ProductOf(Tail(choices))}

\* _create_task_preferences: the preference profiles it can return
_create_task_preferences ==
    ProductOf([t \in 1..Len(tasks) |->
        LET compatible_operators ==
                SelectSeq([o \in 1..Len(operators) |-> o], LAMBDA o : can_assign(o, t))
        IN JitterOrders(compatible_operators,
               [k \in 1..Len(compatible_operators) |->
                    TaskOperatorBase(tasks[t], operators[compatible_operators[k]])])])

\* _create_operator_preferences: the preference profiles it can return
_create_operator_preferences ==
    ProductOf([o \in 1..Len(operators) |->
        LET compatible_tasks ==
                SelectSeq([t \in 1..Len(tasks) |-> t], LAMBDA t : can_assign(o, t))
        IN JitterOrders(compatible_tasks,
               [k \in 1..Len(compatible_tasks) |->
                    OperatorTaskBase(operators[o], tasks[compatible_tasks[k]])])])

IndexOf(prefs, x) ==
    IF \E i \in 1..Len(prefs) : prefs[i] = x
    THEN CHOOSE i \in 1..Len(prefs) : prefs[i] = x
    ELSE Len(prefs) + 1

\* _operator_prefers_task: lower index means higher preference
_operator_prefers_task(operator_id, task1_id, task2_id, prefs) ==
    IF operator_id \notin DOMAIN prefs THEN FALSE
    ELSE IndexOf(prefs[operator_id], task1_id) < IndexOf(prefs[operator_id], task2_id)

\* lines 140-144: the most preferred operator that has not rejected the task,
\* as a sequence of length 0 (None) or 1
PreferredOperator(prefs, rejected) ==
    LET open == SelectSeq(prefs, LAMBDA o : o \notin rejected)
    IN IF open = <<>> THEN <<>> ELSE <<Head(open)>>

\* Fault injection: a task with nobody left to propose to stays in free_tasks
\* (lines 136 and 148 left out)
ProposeOneKeepsExhausted(st, task_id) ==
    LET preferred_operator ==
            PreferredOperator(task_preferences[task_id], st.rejected_by[task_id])
    IN IF task_preferences[task_id] = <<>> \/ preferred_operator = <<>>
       THEN st
       ELSE IF DictHas(st.current_proposals, preferred_operator[1])
       THEN LET competing_task == DictGet(st.current_proposals, preferred_operator[1]) IN
            IF _operator_prefers_task(preferred_operator[1], task_id, competing_task,
                                      operator_preferences)
            THEN [st EXCEPT
                    !.rejected_by[competing_task] = @ \cup {preferred_operator[1]},
                    !.free_tasks = @ \cup {competing_task},
                    !.current_proposals = DictSet(@, preferred_operator[1], task_id)]
            ELSE [st EXCEPT !.rejected_by[task_id] = @ \cup {preferred_operator[1]}]
       ELSE [st EXCEPT !.current_proposals = DictSet(@, preferred_operator[1], task_id)]

\* Fault injection: when the new proposal wins, the rejection of line 157 is
\* recorded for the winner instead of the competing task
ProposeOneRejectsWinner(st, task_id) ==
    LET preferred_operator ==
            PreferredOperator(task_preferences[task_id], st.rejected_by[task_id])
    IN IF task_preferences[task_id] = <<>> \/ preferred_operator = <<>>
       THEN [st EXCEPT !.free_tasks = @ \ {task_id}]
       ELSE IF DictHas(st.current_proposals, preferred_operator[1])
       THEN LET competing_task == DictGet(st.current_proposals, preferred_operator[1]) IN
            IF _operator_prefers_task(preferred_operator[1], task_id, competing_task,
                                      operator_preferences)
            THEN [st EXCEPT
                    !.rejected_by[task_id] = @ \cup {preferred_operator[1]},
                    !.free_tasks = @ \cup {competing_task},
                    !.current_proposals = DictSet(@, preferred_operator[1], task_id)]
            ELSE [st EXCEPT !.rejected_by[task_id] = @ \cup {preferred_operator[1]}]
       ELSE [st EXCEPT !.current_proposals = DictSet(@, preferred_operator[1], task_id)]

\* lines 134-164, the body of the loop over list(free_tasks) for one task;
\* st holds free_tasks, rejected_by and current_proposals
ProposeOne(st, task_id) ==
    LET preferred_operator ==
            PreferredOperator(task_preferences[task_id], st.rejected_by[task_id])
    IN IF task_preferences[task_id] = <<>> \/ preferred_operator = <<>>
       THEN [st EXCEPT !.free_tasks = @ \ {task_id}]
       ELSE IF DictHas(st.current_proposals, preferred_operator[1])
       THEN LET competing_task == DictGet(st.current_proposals, preferred_operator[1]) IN
            IF _operator_prefers_task(preferred_operator[1], task_id, competing_task,
                                      operator_preferences)
            THEN [st EXCEPT
                    !.rejected_by[competing_task] = @ \cup {preferred_operator[1]},
                    !.free_tasks = @ \cup {competing_task},
                    !.current_proposals = DictSet(@, preferred_operator[1], task_id)]
            ELSE [st EXCEPT !.rejected_by[task_id] = @ \cup {preferred_operator[1]}]
       ELSE [st EXCEPT !.current_proposals = DictSet(@, preferred_operator[1], task_id)]

RECURSIVE ProposeAll(_, _)
ProposeAll(st, order) ==
    IF order = <<>> THEN st
    ELSE ProposeAll(ProposeOne(st, Head(order)), Tail(order))

\* the orders in which list(a set) can enumerate the set
Orders(S) ==
    LET n == Cardinality(S)
    IN {f \in [1..n -> S] : \A i \in 1..n : \A j \in 1..n : i # j => f[i] # f[j]}

\* Fault injection: the accepted task is not discarded from free_tasks (line 176)
AcceptProposalKeepFree(st, operator_id, task_id) ==
    LET held == DictHas(st.matches, operator_id)
        old_task == DictGet(st.matches, operator_id)
        release == held /\ old_task # task_id
    IN [matches |-> DictSet(st.matches, operator_id, task_id),
        rejected_by |-> IF release
                        THEN [st.rejected_by EXCEPT ![old_task] = @ \cup {operator_id}]
                        ELSE st.rejected_by,
        free_tasks |-> (IF release THEN st.free_tasks \cup {old_task}
                        ELSE st.free_tasks)]

\* Fault injection: the released task is put back into free_tasks without the
\* operator being added to its rejection set (line 172 left out)
AcceptProposalNoRejection(st, operator_id, task_id) ==
    LET held == DictHas(st.matches, operator_id)
        old_task == DictGet(st.matches, operator_id)
        release == held /\ old_task # task_id
    IN [matches |-> DictSet(st.matches, operator_id, task_id),
        rejected_by |-> st.rejected_by,
        free_tasks |-> ((IF release THEN st.free_tasks \cup {old_task}
                         ELSE st.free_tasks) \ {task_id})]

\* lines 167-176, the body of the loop over current_proposals.items():
\* the operator takes the round's proposal and releases the task it held
AcceptProposal(st, operator_id, task_id) ==
    LET held == DictHas(st.matches, operator_id)
        old_task == DictGet(st.matches, operator_id)
        release == held /\ old_task # task_id
    IN [matches |-> DictSet(st.matches, operator_id, task_id),
        rejected_by |-> IF release
                        THEN [st.rejected_by EXCEPT ![old_task] = @ \cup {operator_id}]
                        ELSE st.rejected_by,
        free_tasks |-> ((IF release THEN st.free_tasks \cup {old_task}
                         ELSE st.free_tasks) \ {task_id})]

RECURSIVE UpdateMatches(_, _)
UpdateMatches(st, proposals) ==
    IF proposals = <<>> THEN st
    ELSE UpdateMatches(AcceptProposal(st, Head(proposals)[1], Head(proposals)[2]),
                       Tail(proposals))

\* lines 129-176: one round of the loop, visiting the free tasks in order
Round(st, order) ==
    LET proposed == ProposeAll([free_tasks |-> st.free_tasks,
                                rejected_by |-> st.rejected_by,
                                current_proposals |-> <<>>], order)
    IN UpdateMatches([matches |-> st.matches, rejected_by |-> proposed.rejected_by,
                      free_tasks |-> proposed.free_tasks], proposed.current_proposals)

\* lines 178-183: task -> operator mapping (reverse of matches)
RECURSIVE ReverseMatches(_, _)
ReverseMatches(m, acc) ==
    IF m = <<>> THEN acc
    ELSE ReverseMatches(Tail(m), DictSet(acc, Head(m)[2], Head(m)[1]))

\* Fault injection: a slot of exactly the required length is passed over (> for >=
\* at line 253)
_find_time_slot_strict(schedule, duration) ==
    LET fits == SelectSeq(schedule, LAMBDA slot : slot[2] - slot[1] > duration)
    IN IF fits = <<>> THEN <<>> ELSE <<Head(fits)[1]>>

\* _find_time_slot: start of the first slot long enough, as a sequence of
\* length 0 (None) or 1
_find_time_slot(schedule, duration) ==
    LET fits == SelectSeq(schedule, LAMBDA slot : slot[2] - slot[1] >= duration)
    IN IF fits = <<>> THEN <<>> ELSE <<Head(fits)[1]>>

_update_schedule(schedule, start_hour, end_hour_) ==
    _update_operator_schedule(schedule, start_hour, end_hour_)

\* Fault injection: the assignment is written for the operator the loop variable of
\* lines 215-218 was left at (the last operator), not for the matched one
PackOneStaleOperator(st, task_id, operator_id) ==
    LET start_hour == _find_time_slot(st.schedules[operator_id],
                                      tasks[task_id].required_hours)
    IN IF start_hour # <<>>
       THEN [assignments |->
                Append(st.assignments,
                       Assignment(Len(operators), task_id, start_hour[1],
                                  tasks[task_id].required_hours)),
             schedules |->
                [st.schedules EXCEPT ![operator_id] =
                    _update_schedule(@, start_hour[1],
                                     start_hour[1] + tasks[task_id].required_hours)]]
       ELSE st

\* lines 229-246, the body of the packing loop for one matched pair
PackOne(st, task_id, operator_id) ==
    LET start_hour == _find_time_slot(st.schedules[operator_id],
                                      tasks[task_id].required_hours)
    IN IF start_hour # <<>>
       THEN [assignments |->
                Append(st.assignments,
                       Assignment(operator_id, task_id, start_hour[1],
                                  tasks[task_id].required_hours)),
             schedules |->
                [st.schedules EXCEPT ![operator_id] =
                    _update_schedule(@, start_hour[1],
                                     start_hour[1] + tasks[task_id].required_hours)]]
       ELSE st

RECURSIVE PackAll(_, _)
PackAll(st, matched_tasks) ==
    IF matched_tasks = <<>> THEN st
    ELSE PackAll(PackOne(st, Head(matched_tasks)[1], Head(matched_tasks)[2]),
                 Tail(matched_tasks))

\* Fault injection: the task lookup of line 223 ignores the id and takes the first
\* task of the input for every matched pair
_create_schedule_result_first_task(tom) ==
    LET order == SortedIndicesDesc([i \in 1..Len(tom) |->
                     calculate_priority_score(tasks[1])])
        matched_tasks == [i \in 1..Len(tom) |-> <<1, tom[order[i]][2]>>]
    IN PackAll([assignments |-> <<>>, schedules |-> InitialSchedules(operators)],
               matched_tasks)

\* _create_schedule_result: matched pairs in dict order, stably sorted by
\* priority score (descending), packed first-fit on the matched operator
_create_schedule_result(tom) ==
    LET order == SortedIndicesDesc([i \in 1..Len(tom) |->
                     calculate_priority_score(tasks[tom[i][1]])])
        matched_tasks == [i \in 1..Len(tom) |-> tom[order[i]]]
    IN PackAll([assignments |-> <<>>, schedules |-> InitialSchedules(operators)],
               matched_tasks)

\* ------------------------------------------------ base.py: validate_result
\* sorted(..., key=...) ascending is stable as well
SortedIndicesAsc(keys) ==
    LET n == Len(keys)
        rank(i) == 1 + Cardinality({j \in 1..n :
                        keys[j] < keys[i] \/ (keys[j] = keys[i] /\ j < i)})
    IN [p \in 1..n |-> CHOOSE i \in 1..n : rank(i) = p]

\* keys of operator_assignments, in order of first appearance
RECURSIVE FirstAppearance(_, _)
FirstAppearance(as, seen) ==
    IF as = <<>> THEN <<>>
    ELSE IF Head(as).operator_id \in seen THEN FirstAppearance(Tail(as), seen)
    ELSE <<Head(as).operator_id>>
             \o FirstAppearance(Tail(as), seen \cup {Head(as).operator_id})

\* Fault injection: the working-hours check rejects an assignment that ends exactly
\* at the end of the window (>= for >)
OperatorErrorsEndInclusive(as, operator_id) ==
    IF operator_id \notin 1..Len(operators) THEN << <<"unknown operator", operator_id>> >>
    ELSE
    LET assignments == SelectSeq(as, LAMBDA a : a.operator_id = operator_id)
        work_start == hour(operators[operator_id].start_min)
        work_end == hour(operators[operator_id].end_min)
        outside(a) ==
            IF a.start_hour < work_start \/ end_hour(a) >= work_end
            THEN << <<"outside working hours", operator_id, a.task_id,
                      a.start_hour, end_hour(a)>> >>
            ELSE <<>>
    IN Concat([i \in 1..Len(assignments) |-> outside(assignments[i])])

\* lines 192-216: the messages for one operator of the result
OperatorErrors(as, operator_id) ==
    IF operator_id \notin 1..Len(operators) THEN << <<"unknown operator", operator_id>> >>
    ELSE
    LET assignments == SelectSeq(as, LAMBDA a : a.operator_id = operator_id)
        order == SortedIndicesAsc([i \in 1..Len(assignments) |-> assignments[i].start_hour])
        sorted_assignments == [i \in 1..Len(assignments) |-> assignments[order[i]]]
        work_start == hour(operators[operator_id].start_min)
        work_end == hour(operators[operator_id].end_min)
        overlap(i) ==
            IF end_hour(sorted_assignments[i]) > sorted_assignments[i + 1].start_hour
            THEN << <<"time overlap", operator_id, sorted_assignments[i].task_id,
                      sorted_assignments[i + 1].task_id>> >>
            ELSE <<>>
        outside(a) ==
            IF a.start_hour < work_start \/ end_hour(a) > work_end
            THEN << <<"outside working hours", operator_id, a.task_id,
                      a.start_hour, end_hour(a)>> >>
            ELSE <<>>
    IN Concat([i \in 1..(Len(sorted_assignments) - 1) |-> overlap(i)])
         \o Concat([i \in 1..Len(assignments) |-> outside(assignments[i])])

\* lines 218-223: one message per repeated occurrence of a task id
MultipleErrors(as) ==
    Concat([i \in 1..Len(as) |->
        IF \E j \in 1..(i - 1) : as[j].task_id = as[i].task_id
        THEN << <<"assigned multiple times", as[i].task_id>> >>
        ELSE <<>>])

\* validate_result: the list of error messages (the flag is errors = <<>>)
validate_result(as) ==
    LET keys == FirstAppearance(as, {})
    IN Concat([k \in 1..Len(keys) |-> OperatorErrors(as, keys[k])]) \o MultipleErrors(as)

\* ----------------------------------------------------------------- actions
\* ---------------------------------------------------------- utils/scheduler
AlgorithmTypes ==
    {"linear_programming", "cp_sat", "genetic_algorithm", "heuristic", "deferred_acceptance"}

\* JobScheduler.__init__, lines 34-36: the algorithm class mapping
algorithm_classes == {"linear_programming"}

NoOutcome == [algorithm_type |-> "None", exit |-> "None"]

\* JobScheduler.__init__
SchedulerInit ==
    /\ scheduler_operators = <<>>
    /\ scheduler_tasks = <<>>
    /\ status = "idle"
    /\ current_algorithm = "None"
    /\ results = <<>>
    /\ execution_log = <<>>
    /\ outcome = NoOutcome
    /\ run_calls = 0

\* no second strategy object exists yet
PeerInit ==
    /\ peer_improvement_iterations = 0
    /\ peer_pc = "absent"
    /\ peer_result = <<>>
    /\ peer_operator_schedules = <<>>
    /\ peer_gi = 0
    /\ peer_best_score = 0
    /\ peer_iteration = 0

\* No single method was called yet; the comparison object is empty
\* (schedule.py 98).
MethodInit ==
    /\ improve_input = <<>>
    /\ improved_result = NoneResult
    /\ days_passed = 0
    /\ comparison_results = <<>>
    /\ metric = "None"
    /\ best_algorithm = "None"
    /\ best_calls = 0
    /\ free_list = <<>>
    /\ occupied = <<>>

\* Nothing has called into the strategy object yet.
CallerInit ==
    /\ validated = <<>>
    /\ errors = <<>>
    /\ calls = 0
    /\ SchedulerInit
    /\ previous_result = <<>>
    /\ replayed = FALSE
    /\ PeerInit
    /\ MethodInit

\* After construction: the strategy object with its iteration parameter,
\* no operators and no tasks yet (base.py 13-17, heuristic.py 14-17,
\* deferred_acceptance.py 14-17).
Constructed(strategies, budgets, caps) ==
    /\ strategy \in strategies
    /\ improvement_iterations \in (IF strategy = "heuristic" THEN budgets ELSE {0})
    /\ max_iterations \in (IF strategy = "deferred_acceptance" THEN caps ELSE {0})
    /\ operators = <<>>
    /\ tasks = <<>>
    /\ skill_matching = <<>>
    /\ pc = "constructed"
    /\ result = <<>>
    /\ operator_schedules = <<>>
    /\ sorted_tasks = <<>>
    /\ gi = 0
    /\ best_score = 0
    /\ iteration = 0
    /\ task_preferences = <<>>
    /\ operator_preferences = <<>>
    /\ matches = <<>>
    /\ rejected_by = <<>>
    /\ free_tasks = {}
    /\ task_operator_matches = <<>>
    /\ CallerInit

Init == Constructed(Strategies, ImprovementBudgets, IterationCaps)

\* OptimizationAlgorithm.setup
Setup(operator_lists, task_lists) ==
    /\ pc = "constructed"
    /\ \E ops \in operator_lists, ts \in task_lists :
        /\ operators' = ops
        /\ tasks' = ts
        /\ skill_matching' = compute_skill_matching(ops, ts)
    /\ pc' = "ready"
    /\ UNCHANGED <<strategy, improvement_iterations, max_iterations, result,
                   operator_schedules, iteration>>
    /\ UNCHANGED heuristicVars
    /\ UNCHANGED matchingVars
    /\ UNCHANGED callerVars

\* OptimizationAlgorithm.run, lines 34-35: ValueError, also when setup was
\* never called
RunRaises ==
    /\ pc \in {"constructed", "ready"}
    /\ (operators = <<>> \/ tasks = <<>>)
    /\ pc' = "error"
    /\ UNCHANGED <<result, operator_schedules, iteration>>
    /\ UNCHANGED inputVars
    /\ UNCHANGED heuristicVars
    /\ UNCHANGED matchingVars
    /\ UNCHANGED callerVars

\* run -> HeuristicOptimizer._optimize -> _greedy_assignment, lines 31-41
RunHeuristic ==
    /\ pc = "ready"
    /\ strategy = "heuristic"
    /\ ~(operators = <<>> \/ tasks = <<>>)
    /\ result' = <<>>
    /\ sorted_tasks' = SortedIndicesDesc([t \in 1..Len(tasks) |->
                                             calculate_priority_score(tasks[t])])
    /\ operator_schedules' = InitialSchedules(operators)
    /\ gi' = 1
    /\ pc' = "greedy"
    /\ UNCHANGED <<best_score, iteration>>
    /\ UNCHANGED inputVars
    /\ UNCHANGED matchingVars
    /\ UNCHANGED callerVars

\* _greedy_assignment, lines 44-60: one pass of the loop over sorted_tasks
GreedyStep ==
    /\ pc = "greedy"
    /\ gi <= Len(sorted_tasks)
    /\ LET task_id == sorted_tasks[gi]
           best_assignment == _find_best_assignment(task_id, operator_schedules)
       IN IF best_assignment.operator # "None"
          THEN /\ result' = Append(result,
                       Assignment(best_assignment.operator, task_id, best_assignment.start,
                                  tasks[task_id].required_hours))
               /\ operator_schedules' =
                       [operator_schedules EXCEPT ![best_assignment.operator] =
                           _update_operator_schedule(@, best_assignment.start,
                               best_assignment.start + tasks[task_id].required_hours)]
          ELSE UNCHANGED <<result, operator_schedules>>
    /\ gi' = gi + 1
    /\ UNCHANGED <<pc, sorted_tasks, best_score, iteration>>
    /\ UNCHANGED inputVars
    /\ UNCHANGED matchingVars
    /\ UNCHANGED callerVars

\* _greedy_assignment returns; _improve_solution, lines 149-150
StartImprove ==
    /\ pc = "greedy"
    /\ gi > Len(sorted_tasks)
    /\ best_score' = _evaluate_solution(result)
    /\ iteration' = 0
    /\ pc' = "improve"
    /\ UNCHANGED <<result, operator_schedules, sorted_tasks, gi>>
    /\ UNCHANGED inputVars
    /\ UNCHANGED matchingVars
    /\ UNCHANGED callerVars

\* _improve_solution, lines 152-161: one iteration (result is best_result)
ImproveStep ==
    /\ pc = "improve"
    /\ iteration < improvement_iterations
    /\ \E candidate \in _try_improvements(result) :
        /\ improved_result' = candidate
        /\ IF candidate.some /\ _evaluate_solution(candidate.assignments) > best_score
           THEN /\ result' = candidate.assignments
                /\ best_score' = _evaluate_solution(candidate.assignments)
           ELSE UNCHANGED <<result, best_score>>
    /\ iteration' = iteration + 1
    /\ UNCHANGED <<pc, operator_schedules, sorted_tasks, gi>>
    /\ UNCHANGED inputVars
    /\ UNCHANGED matchingVars
    /\ UNCHANGED <<validatorVars, schedulerVars, replayVars, peerVars>>
    /\ UNCHANGED <<improve_input, days_passed, comparisonVars, intervalVars>>

\* _improve_solution returns best_result; run returns it
ReturnHeuristic ==
    /\ pc = "improve"
    /\ iteration >= improvement_iterations
    /\ pc' = "done"
    /\ UNCHANGED <<result, operator_schedules, iteration>>
    /\ UNCHANGED inputVars
    /\ UNCHANGED heuristicVars
    /\ UNCHANGED matchingVars
    /\ UNCHANGED callerVars

\* run -> DeferredAcceptanceOptimizer._optimize, lines 22-23, and
\* _deferred_acceptance, lines 120-127
RunDeferredAcceptance ==
    /\ pc = "ready"
    /\ strategy = "deferred_acceptance"
    /\ ~(operators = <<>> \/ tasks = <<>>)
    /\ task_preferences' \in _create_task_preferences
    /\ operator_preferences' \in _create_operator_preferences
    /\ matches' = <<>>
    /\ rejected_by' = [t \in 1..Len(tasks) |-> {}]
    /\ free_tasks' = 1..Len(tasks)
    /\ iteration' = 0
    /\ pc' = "loop"
    /\ UNCHANGED <<result, operator_schedules, task_operator_matches>>
    /\ UNCHANGED inputVars
    /\ UNCHANGED heuristicVars
    /\ UNCHANGED callerVars

\* lines 128-176: the loop condition holds and one round runs; the set
\* free_tasks is enumerated in an arbitrary order
MatchingRound ==
    /\ pc = "loop"
    /\ free_tasks # {} /\ iteration < max_iterations
    /\ iteration' = iteration + 1
    /\ \E order \in Orders(free_tasks) :
        LET st == Round([matches |-> matches, rejected_by |-> rejected_by,
                         free_tasks |-> free_tasks], order)
        IN /\ matches' = st.matches
           /\ rejected_by' = st.rejected_by
           /\ free_tasks' = st.free_tasks
    /\ UNCHANGED <<pc, result, operator_schedules, task_preferences,
                   operator_preferences, task_operator_matches>>
    /\ UNCHANGED inputVars
    /\ UNCHANGED heuristicVars
    /\ UNCHANGED callerVars

\* lines 128, 178-183: the loop condition fails; the matching is returned
ExitLoop ==
    /\ pc = "loop"
    /\ ~(free_tasks # {} /\ iteration < max_iterations)
    /\ task_operator_matches' = ReverseMatches(matches, <<>>)
    /\ pc' = "packing"
    /\ UNCHANGED <<result, operator_schedules, iteration, task_preferences,
                   operator_preferences, matches, rejected_by, free_tasks>>
    /\ UNCHANGED inputVars
    /\ UNCHANGED heuristicVars
    /\ UNCHANGED callerVars

\* _optimize, line 29: _create_schedule_result; run returns the result
CreateScheduleResult ==
    /\ pc = "packing"
    /\ LET st == _create_schedule_result(task_operator_matches)
       IN /\ result' = st.assignments
          /\ operator_schedules' = st.schedules
    /\ pc' = "done"
    /\ UNCHANGED iteration
    /\ UNCHANGED inputVars
    /\ UNCHANGED heuristicVars
    /\ UNCHANGED matchingVars
    /\ UNCHANGED callerVars

Next ==
    \/ Setup(OperatorLists, TaskLists)
    \/ RunRaises
    \/ RunHeuristic
    \/ GreedyStep
    \/ StartImprove
    \/ ImproveStep
    \/ ReturnHeuristic
    \/ RunDeferredAcceptance
    \/ MatchingRound
    \/ ExitLoop
    \/ CreateScheduleResult

Spec == Init /\ [][Next]_vars

\* The matching loop on inputs whose preference scores are all tied, so that
\* the random tie-break makes every strict ranking of the eligible partners a
\* possible preference list: one window, one task length, one priority.
TiedOperatorKinds == {Operator(<<9 * 60, 17 * 60>>, sk) : sk \in SUBSET Skills}
TiedTaskKinds == {Task(4, "MEDIUM", NoDeadline, sk) : sk \in InputSkills}
TiedOperatorLists == UNION {[1..n -> TiedOperatorKinds] : n \in 1..MaxOps}
TiedTaskLists == UNION {[1..n -> TiedTaskKinds] : n \in 1..MaxMatchTasks}
MatchingCaps == (1..MaxMatchCap) \cup {max_iterations_default}

InitMatching == Constructed({"deferred_acceptance"}, {0}, MatchingCaps)

NextMatching ==
    \/ Setup(TiedOperatorLists, TiedTaskLists)
    \/ RunDeferredAcceptance
    \/ MatchingRound
    \/ ExitLoop
    \/ CreateScheduleResult

SpecMatching == InitMatching /\ [][NextMatching]_vars

\* validate_result is a method of the base class that takes any
\* ScheduleResult: the results given to it are lists of up to MaxAssignments
\* assignments of a task to an operator at one of a few start hours, with
\* the task's required hours as duration (what add_assignment callers pass).
ValidatorTaskKinds == {Task(4, "MEDIUM", NoDeadline, sk) : sk \in InputSkills}
ValidatorOperatorLists == UNION {[1..n -> OperatorKinds] : n \in 1..MaxOps}
ValidatorTaskLists == UNION {[1..n -> ValidatorTaskKinds] : n \in 1..MaxTasks}
CandidateStarts == {9, 10, 13}

CandidateAssignments ==
    {Assignment(o, t, s, tasks[t].required_hours) :
        o \in OperatorIds, t \in TaskIds, s \in CandidateStarts}

CandidateResults == UNION {[1..n -> CandidateAssignments] : n \in 0..MaxAssignments}

\* Fault injection: the error list is kept between calls instead of starting
\* empty at line 182
ValidateResultKeepsErrors(candidates) ==
    /\ pc = "ready"
    /\ calls < MaxCalls
    /\ \E as \in (IF calls = 0 THEN candidates ELSE {validated}) :
        /\ validated' = as
        /\ errors' = errors \o validate_result(as)
    /\ calls' = calls + 1
    /\ UNCHANGED <<pc, result, operator_schedules, iteration>>
    /\ UNCHANGED inputVars
    /\ UNCHANGED heuristicVars
    /\ UNCHANGED matchingVars
    /\ UNCHANGED schedulerVars
    /\ UNCHANGED replayVars
    /\ UNCHANGED peerVars
    /\ UNCHANGED methodVars

\* validate_result called on a ScheduleResult, the first time on a result
\* the caller built, after that on the same object again.  The call builds
\* its error list from empty (line 182) and only reads result.assignments
\* (sorted() at line 199 copies), so the object is as it was.
ValidateResult(candidates) ==
    /\ pc = "ready"
    /\ calls < MaxCalls
    /\ \E as \in (IF calls = 0 THEN candidates ELSE {validated}) :
        /\ validated' = as
        /\ errors' = validate_result(as)
    /\ calls' = calls + 1
    /\ UNCHANGED <<pc, result, operator_schedules, iteration>>
    /\ UNCHANGED inputVars
    /\ UNCHANGED heuristicVars
    /\ UNCHANGED matchingVars
    /\ UNCHANGED schedulerVars
    /\ UNCHANGED replayVars
    /\ UNCHANGED peerVars
    /\ UNCHANGED methodVars

InitValidator == Constructed(Strategies, {0}, {1})

NextValidator ==
    \/ Setup(ValidatorOperatorLists, ValidatorTaskLists)
    \/ ValidateResult(CandidateResults)

SpecValidator == InitValidator /\ [][NextValidator]_vars

\* ------------------------------------------- algorithms/linear_programming
\* LinearProgrammingOptimizer._optimize: the assignment lists an optimal
\* solution of the program of _add_constraints / _set_objective can be
\* extracted to.  A solution gives every task an operator and a start hour,
\* or <<0, 0>> for no operator.
LinearProgrammingResults(ops, ts) ==
    LET Unassigned == <<0, 0>>
        work_start(o) == hour(ops[o].start_min)
        work_end(o) == hour(ops[o].end_min)
        Options(t) ==
            {Unassigned} \cup
            {<<o, st>> : o \in Range(EligibleSeq(ts[t], ops)), st \in 0..23}
        Solutions == {c \in [1..Len(ts) -> UNION {Options(t) : t \in 1..Len(ts)}] :
                         \A t \in 1..Len(ts) : c[t] \in Options(t)}
        InHours(c) ==
            \A t \in 1..Len(ts) :
                c[t] # Unassigned
                    => /\ c[t][2] >= work_start(c[t][1])
                       /\ c[t][2] + ts[t].required_hours <= work_end(c[t][1])
        NoOverlap(c) ==
            \A t1 \in 1..Len(ts) : \A t2 \in 1..Len(ts) :
                (t1 < t2 /\ c[t1] # Unassigned /\ c[t1][1] = c[t2][1])
                    => \/ c[t1][2] + ts[t1].required_hours <= c[t2][2]
                       \/ c[t2][2] + ts[t2].required_hours <= c[t1][2]
        MaxHours(c) ==
            \A o \in 1..Len(ops) :
                SumSeq([t \in 1..Len(ts) |->
                           IF c[t] # Unassigned /\ c[t][1] = o
                           THEN ts[t].required_hours ELSE 0]) * 60
                    <= get_available_hours_in_minutes(ops[o])
        Feasible == {c \in Solutions : InHours(c) /\ NoOverlap(c) /\ MaxHours(c)}
        value(c) ==
            SumSeq([t \in 1..Len(ts) |->
                       IF c[t] # Unassigned
                       THEN ScoreScale + calculate_priority_score(ts[t]) ELSE 0])
        Optimal == {c \in Feasible : \A d \in Feasible : value(d) <= value(c)}
        extract(c) ==
            Concat([o \in 1..Len(ops) |->
                Concat([t \in 1..Len(ts) |->
                    IF c[t] # Unassigned /\ c[t][1] = o
                    THEN <<Assignment(o, t, c[t][2], ts[t].required_hours)>>
                    ELSE <<>>])])
    IN {extract(c) : c \in Optimal}

\* ---------------------------------------------------------- utils/scheduler
\* JobScheduler.set_data
SetData(operator_lists, task_lists) ==
    /\ status # "running"
    /\ \E ops \in operator_lists, ts \in task_lists :
        /\ scheduler_operators' = ops
        /\ scheduler_tasks' = ts
    /\ UNCHANGED <<status, current_algorithm, results, execution_log, outcome, run_calls>>
    /\ UNCHANGED <<pc, result, operator_schedules, iteration>>
    /\ UNCHANGED <<inputVars, heuristicVars, matchingVars, methodVars, validatorVars, replayVars,
                   peerVars>>

\* Fault injection: the data check of lines 46-47 is made inside the try block,
\* after the status was set, so that an empty list is logged as a failed run
RunAlgorithmBeginChecksLate(algorithm_types) ==
    /\ status # "running"
    /\ run_calls < MaxRunCalls
    /\ run_calls' = run_calls + 1
    /\ \E algorithm_type \in algorithm_types :
        IF algorithm_type \notin algorithm_classes
        THEN /\ outcome' = [algorithm_type |-> algorithm_type,
                            exit |-> "ValueError: unsupported algorithm type"]
             /\ UNCHANGED <<status, current_algorithm, execution_log>>
        ELSE IF scheduler_operators = <<>> \/ scheduler_tasks = <<>>
        THEN /\ outcome' = [algorithm_type |-> algorithm_type,
                            exit |-> "ValueError: no data set"]
             /\ status' = "error"
             /\ execution_log' = Append(execution_log,
                    [algorithm |-> algorithm_type, status |-> "error",
                     assignments_count |-> 0])
             /\ UNCHANGED current_algorithm
        ELSE /\ outcome' = [algorithm_type |-> algorithm_type, exit |-> "running"]
             /\ status' = "running"
             /\ current_algorithm' = algorithm_type
             /\ UNCHANGED execution_log
    /\ UNCHANGED <<scheduler_operators, scheduler_tasks, results>>
    /\ UNCHANGED <<pc, result, operator_schedules, iteration>>
    /\ UNCHANGED <<inputVars, heuristicVars, matchingVars, methodVars, validatorVars, replayVars,
                   peerVars>>

\* JobScheduler.run_algorithm, lines 46-61: the two early raises, or the run
\* starts: status RUNNING and the algorithm instance created
RunAlgorithmBegin(algorithm_types) ==
    /\ status # "running"
    /\ run_calls < MaxRunCalls
    /\ run_calls' = run_calls + 1
    /\ \E algorithm_type \in algorithm_types :
        IF scheduler_operators = <<>> \/ scheduler_tasks = <<>>
        THEN /\ outcome' = [algorithm_type |-> algorithm_type,
                            exit |-> "ValueError: no data set"]
             /\ UNCHANGED <<status, current_algorithm>>
        ELSE IF algorithm_type \notin algorithm_classes
        THEN /\ outcome' = [algorithm_type |-> algorithm_type,
                            exit |-> "ValueError: unsupported algorithm type"]
             /\ UNCHANGED <<status, current_algorithm>>
        ELSE /\ outcome' = [algorithm_type |-> algorithm_type, exit |-> "running"]
             /\ status' = "running"
             /\ current_algorithm' = algorithm_type
    /\ UNCHANGED <<scheduler_operators, scheduler_tasks, results, execution_log>>
    /\ UNCHANGED <<pc, result, operator_schedules, iteration>>
    /\ UNCHANGED <<inputVars, heuristicVars, matchingVars, methodVars, validatorVars, replayVars,
                   peerVars>>

\* Fault injection: the except branch also empties self.results
RunAlgorithmEndDropsResults ==
    /\ status = "running"
    /\ \/ \E assignments \in LinearProgrammingResults(scheduler_operators, scheduler_tasks) :
            /\ results' = DictSet(results, current_algorithm, assignments)
            /\ execution_log' = Append(execution_log,
                   [algorithm |-> current_algorithm, status |-> "success",
                    assignments_count |-> Len(assignments)])
            /\ status' = "completed"
            /\ outcome' = [algorithm_type |-> current_algorithm, exit |-> "returned"]
       \/ /\ execution_log' = Append(execution_log,
                   [algorithm |-> current_algorithm, status |-> "error",
                    assignments_count |-> 0])
          /\ status' = "error"
          /\ outcome' = [algorithm_type |-> current_algorithm, exit |-> "raised"]
          /\ results' = <<>>
    /\ current_algorithm' = "None"
    /\ UNCHANGED <<scheduler_operators, scheduler_tasks, run_calls>>
    /\ UNCHANGED <<pc, result, operator_schedules, iteration>>
    /\ UNCHANGED <<inputVars, heuristicVars, matchingVars, methodVars, validatorVars, replayVars,
                   peerVars>>

\* JobScheduler.run_algorithm, lines 66-110: setup and run of the instance,
\* then either the result is stored and logged (lines 69-89) or the
\* exception is logged and raised again (lines 91-107); finally clears
\* current_algorithm
RunAlgorithmEnd ==
    /\ status = "running"
    /\ \/ \E assignments \in LinearProgrammingResults(scheduler_operators, scheduler_tasks) :
            /\ results' = DictSet(results, current_algorithm, assignments)
            /\ execution_log' = Append(execution_log,
                   [algorithm |-> current_algorithm, status |-> "success",
                    assignments_count |-> Len(assignments)])
            /\ status' = "completed"
            /\ outcome' = [algorithm_type |-> current_algorithm, exit |-> "returned"]
       \/ /\ execution_log' = Append(execution_log,
                   [algorithm |-> current_algorithm, status |-> "error",
                    assignments_count |-> 0])
          /\ status' = "error"
          /\ outcome' = [algorithm_type |-> current_algorithm, exit |-> "raised"]
          /\ UNCHANGED results
    /\ current_algorithm' = "None"
    /\ UNCHANGED <<scheduler_operators, scheduler_tasks, run_calls>>
    /\ UNCHANGED <<pc, result, operator_schedules, iteration>>
    /\ UNCHANGED <<inputVars, heuristicVars, matchingVars, methodVars, validatorVars, replayVars,
                   peerVars>>

\* JobScheduler.clear_results
ClearResults ==
    /\ status # "running"
    /\ results # <<>> \/ execution_log # <<>>
    /\ results' = <<>>
    /\ execution_log' = <<>>
    /\ UNCHANGED <<scheduler_operators, scheduler_tasks, status, current_algorithm,
                   outcome, run_calls>>
    /\ UNCHANGED <<pc, result, operator_schedules, iteration>>
    /\ UNCHANGED <<inputVars, heuristicVars, matchingVars, methodVars, validatorVars, replayVars,
                   peerVars>>

\* The ways into a run: a strategy object set up and run by its caller, and
\* the scheduler's run_algorithm, each with lists of at most one operator and
\* one task.
EntryOperatorLists == {<<>>, <<Operator(<<9 * 60, 17 * 60>>, {})>>}
EntryTaskLists == {<<>>, <<Task(HoursMax, "MEDIUM", NoDeadline, NoSkill)>>}

InitEntryPoints == Constructed(Strategies, {1}, {1})

NextEntryPoints ==
    \/ Setup(EntryOperatorLists, EntryTaskLists)
    \/ RunRaises
    \/ RunHeuristic
    \/ GreedyStep
    \/ StartImprove
    \/ ImproveStep
    \/ ReturnHeuristic
    \/ RunDeferredAcceptance
    \/ MatchingRound
    \/ ExitLoop
    \/ CreateScheduleResult
    \/ SetData(EntryOperatorLists, EntryTaskLists)
    \/ RunAlgorithmBegin(AlgorithmTypes)
    \/ RunAlgorithmEnd
    \/ ClearResults

SpecEntryPoints == InitEntryPoints /\ [][NextEntryPoints]_vars

\* run() called a second time on the same object, with the operators, tasks
\* and iteration parameter it already has.  Neither run() nor the strategies
\* take a seed: the random draws of the second run come from the random
\* module's state as the first run left it.
RunAgain ==
    /\ pc = "done"
    /\ ~replayed
    /\ previous_result' = result
    /\ replayed' = TRUE
    /\ pc' = "ready"
    /\ UNCHANGED <<result, operator_schedules, iteration>>
    /\ UNCHANGED <<inputVars, heuristicVars, matchingVars, methodVars, validatorVars, schedulerVars,
                   peerVars>>

ReplayTaskLists == UNION {[1..n -> TiedTaskKinds] : n \in 1..MaxTasks}

InitReplay == Constructed(Strategies, ImprovementBudgets, {max_iterations_default})

NextReplay ==
    \/ Setup(TiedOperatorLists, ReplayTaskLists)
    \/ RunHeuristic
    \/ GreedyStep
    \/ StartImprove
    \/ ImproveStep
    \/ ReturnHeuristic
    \/ RunDeferredAcceptance
    \/ MatchingRound
    \/ ExitLoop
    \/ CreateScheduleResult
    \/ RunAgain

SpecReplay == InitReplay /\ [][NextReplay]_vars

\* ------------------------------------------- a second strategy object
\* A HeuristicOptimizer constructed and set up with the same operator and
\* task lists as the first object (setup keeps references to the lists, so
\* operators and tasks are the lists of both), its steps interleaved with
\* the first object's.  Its compatibility index is computed from the same
\* lists and therefore equals skill_matching.
PeerConstruct(budgets) ==
    /\ peer_pc = "absent"
    /\ peer_improvement_iterations' \in budgets
    /\ peer_pc' = "constructed"
    /\ UNCHANGED <<peer_result, peer_operator_schedules, peer_gi, peer_best_score,
                   peer_iteration>>
    /\ UNCHANGED <<pc, result, operator_schedules, iteration>>
    /\ UNCHANGED <<inputVars, heuristicVars, matchingVars, methodVars, validatorVars, schedulerVars,
                   replayVars>>

\* setup of the second object with the lists the first was given
PeerSetup ==
    /\ peer_pc = "constructed"
    /\ pc # "constructed"
    /\ peer_pc' = "ready"
    /\ UNCHANGED <<peer_improvement_iterations, peer_result, peer_operator_schedules,
                   peer_gi, peer_best_score, peer_iteration>>
    /\ UNCHANGED <<pc, result, operator_schedules, iteration>>
    /\ UNCHANGED <<inputVars, heuristicVars, matchingVars, methodVars, validatorVars, schedulerVars,
                   replayVars>>

\* run -> _optimize -> _greedy_assignment, lines 31-41, of the second object
PeerRunHeuristic ==
    /\ peer_pc = "ready"
    /\ ~(operators = <<>> \/ tasks = <<>>)
    /\ peer_result' = <<>>
    /\ peer_operator_schedules' = InitialSchedules(operators)
    /\ peer_gi' = 1
    /\ peer_pc' = "greedy"
    /\ UNCHANGED <<peer_improvement_iterations, peer_best_score, peer_iteration>>
    /\ UNCHANGED <<pc, result, operator_schedules, iteration>>
    /\ UNCHANGED <<inputVars, heuristicVars, matchingVars, methodVars, validatorVars, schedulerVars,
                   replayVars>>

\* _greedy_assignment, lines 44-60, of the second object
PeerGreedyStep ==
    LET peer_sorted_tasks == SortedIndicesDesc([t \in 1..Len(tasks) |->
                                                   calculate_priority_score(tasks[t])])
    IN
    /\ peer_pc = "greedy"
    /\ peer_gi <= Len(peer_sorted_tasks)
    /\ LET task_id == peer_sorted_tasks[peer_gi]
           best_assignment == _find_best_assignment(task_id, peer_operator_schedules)
       IN IF best_assignment.operator # "None"
          THEN /\ peer_result' = Append(peer_result,
                       Assignment(best_assignment.operator, task_id, best_assignment.start,
                                  tasks[task_id].required_hours))
               /\ peer_operator_schedules' =
                       [peer_operator_schedules EXCEPT ![best_assignment.operator] =
                           _update_operator_schedule(@, best_assignment.start,
                               best_assignment.start + tasks[task_id].required_hours)]
          ELSE UNCHANGED <<peer_result, peer_operator_schedules>>
    /\ peer_gi' = peer_gi + 1
    /\ UNCHANGED <<peer_improvement_iterations, peer_pc, peer_best_score, peer_iteration>>
    /\ UNCHANGED <<pc, result, operator_schedules, iteration>>
    /\ UNCHANGED <<inputVars, heuristicVars, matchingVars, methodVars, validatorVars, schedulerVars,
                   replayVars>>

\* _improve_solution, lines 149-150, of the second object
PeerStartImprove ==
    /\ peer_pc = "greedy"
    /\ peer_gi > Len(tasks)
    /\ peer_best_score' = _evaluate_solution(peer_result)
    /\ peer_iteration' = 0
    /\ peer_pc' = "improve"
    /\ UNCHANGED <<peer_improvement_iterations, peer_result, peer_operator_schedules,
                   peer_gi>>
    /\ UNCHANGED <<pc, result, operator_schedules, iteration>>
    /\ UNCHANGED <<inputVars, heuristicVars, matchingVars, methodVars, validatorVars, schedulerVars,
                   replayVars>>

\* _improve_solution, lines 152-161, of the second object
PeerImproveStep ==
    /\ peer_pc = "improve"
    /\ peer_iteration < peer_improvement_iterations
    /\ \E candidate \in _try_improvements(peer_result) :
        IF candidate.some
           /\ _evaluate_solution(candidate.assignments) > peer_best_score
        THEN /\ peer_result' = candidate.assignments
             /\ peer_best_score' = _evaluate_solution(candidate.assignments)
        ELSE UNCHANGED <<peer_result, peer_best_score>>
    /\ peer_iteration' = peer_iteration + 1
    /\ UNCHANGED <<peer_improvement_iterations, peer_pc, peer_operator_schedules, peer_gi>>
    /\ UNCHANGED <<pc, result, operator_schedules, iteration>>
    /\ UNCHANGED <<inputVars, heuristicVars, matchingVars, methodVars, validatorVars, schedulerVars,
                   replayVars>>

\* _improve_solution returns; run of the second object returns
PeerReturnHeuristic ==
    /\ peer_pc = "improve"
    /\ peer_iteration >= peer_improvement_iterations
    /\ peer_pc' = "done"
    /\ UNCHANGED <<peer_improvement_iterations, peer_result, peer_operator_schedules,
                   peer_gi, peer_best_score, peer_iteration>>
    /\ UNCHANGED <<pc, result, operator_schedules, iteration>>
    /\ UNCHANGED <<inputVars, heuristicVars, matchingVars, methodVars, validatorVars, schedulerVars,
                   replayVars>>

ConcurrentTaskKinds == {Task(4, "MEDIUM", NoDeadline, sk) : sk \in InputSkills}
ConcurrentOperatorLists == UNION {[1..n -> OperatorKinds] : n \in 1..MaxOps}
ConcurrentTaskLists == UNION {[1..n -> ConcurrentTaskKinds] : n \in 1..MaxTasks}

InitConcurrent == Constructed(Strategies, ImprovementBudgets, {max_iterations_default})

NextConcurrent ==
    \/ Setup(ConcurrentOperatorLists, ConcurrentTaskLists)
    \/ RunHeuristic
    \/ GreedyStep
    \/ StartImprove
    \/ ImproveStep
    \/ ReturnHeuristic
    \/ RunDeferredAcceptance
    \/ MatchingRound
    \/ ExitLoop
    \/ CreateScheduleResult
    \/ PeerConstruct(ImprovementBudgets)
    \/ PeerSetup
    \/ PeerRunHeuristic
    \/ PeerGreedyStep
    \/ PeerStartImprove
    \/ PeerImproveStep
    \/ PeerReturnHeuristic

SpecConcurrent == InitConcurrent /\ [][NextConcurrent]_vars

\* ------------------------------------------------------------------ claims

\* ---------------------------------------------- heuristic: _improve_solution
\* _improve_solution takes any ScheduleResult: the results given to it are
\* lists of up to MaxAssignments assignments over the operators and tasks of
\* setup, with the task's required hours as duration.  Tasks may carry a
\* deadline two days ahead.
MaxDays == 1
ImproveTaskKinds ==
    {Task(4, "MEDIUM", d, sk) : d \in {NoDeadline, 2}, sk \in InputSkills}
ImproveOperatorLists == UNION {[1..n -> OperatorKinds] : n \in 1..MaxOps}
ImproveTaskLists == UNION {[1..n -> ImproveTaskKinds] : n \in 1..MaxTasks}

\* _improve_solution(result), lines 149-150
ImproveSolution(candidates) ==
    /\ pc = "ready"
    /\ strategy = "heuristic"
    /\ \E as \in candidates :
        /\ improve_input' = as
        /\ result' = as
        /\ best_score' = _evaluate_solution(as)
    /\ iteration' = 0
    /\ pc' = "improve"
    /\ UNCHANGED <<operator_schedules, sorted_tasks, gi>>
    /\ UNCHANGED inputVars
    /\ UNCHANGED matchingVars
    /\ UNCHANGED <<validatorVars, schedulerVars, replayVars, peerVars>>
    /\ UNCHANGED <<improved_result, days_passed, comparisonVars, intervalVars>>

\* The wall clock passes a point a whole number of days before the deadlines
\* while _improve_solution is running: every later days_until_deadline() is
\* one less.
ClockTick ==
    /\ pc = "improve"
    /\ days_passed < MaxDays
    /\ days_passed' = days_passed + 1
    /\ UNCHANGED <<pc, result, operator_schedules, iteration>>
    /\ UNCHANGED inputVars
    /\ UNCHANGED heuristicVars
    /\ UNCHANGED matchingVars
    /\ UNCHANGED <<validatorVars, schedulerVars, replayVars, peerVars>>
    /\ UNCHANGED <<improve_input, improved_result, comparisonVars, intervalVars>>

InitImprove == Constructed({"heuristic"}, ImprovementBudgets, {0})

NextImprove ==
    \/ Setup(ImproveOperatorLists, ImproveTaskLists)
    \/ ImproveSolution(CandidateResults)
    \/ ClockTick
    \/ ImproveStep
    \/ ReturnHeuristic

SpecImprove == InitImprove /\ [][NextImprove]_vars


\* ------------------------------- deferred acceptance: _create_schedule_result
\* _create_schedule_result takes any dict task id -> operator id: the dicts
\* given to it hold some of the tasks of setup, in any insertion order, each
\* with any operator, so that one operator may get several tasks.
PackingOperatorLists == UNION {[1..n -> {Operator(w, {}) : w \in Windows}] : n \in 1..MaxOps}
PackingTaskKinds ==
    {Task(h, p, NoDeadline, NoSkill) : h \in InputHours, p \in InputPriorities}
PackingTaskLists == UNION {[1..n -> PackingTaskKinds] : n \in 1..MaxMatchTasks}

MatchDicts ==
    {d \in UNION {[1..n -> TaskIds \X OperatorIds] : n \in 0..Len(tasks)} :
        \A i \in 1..Len(d) : \A j \in 1..Len(d) : d[i][1] = d[j][1] => i = j}

\* _create_schedule_result(matches) called with a dict of the caller
PackMatches ==
    /\ pc = "ready"
    /\ strategy = "deferred_acceptance"
    /\ task_operator_matches' \in MatchDicts
    /\ pc' = "packing"
    /\ UNCHANGED <<result, operator_schedules, iteration, task_preferences,
                   operator_preferences, matches, rejected_by, free_tasks>>
    /\ UNCHANGED inputVars
    /\ UNCHANGED heuristicVars
    /\ UNCHANGED callerVars

InitPacking == Constructed({"deferred_acceptance"}, {0}, {max_iterations_default})

NextPacking ==
    \/ Setup(PackingOperatorLists, PackingTaskLists)
    \/ PackMatches
    \/ CreateScheduleResult

SpecPacking == InitPacking /\ [][NextPacking]_vars


\* ------------------------------------------ the free-interval list update
\* _update_operator_schedule / _update_schedule take any list and any range:
\* the list is the one the strategies build for an operator (lines 39-41),
\* the ranges start at any hour around the window and are 1 to 3 hours long.
OccupyOperatorLists == {<<Operator(w, {})>> : w \in Windows}
OccupyTaskLists == {<<Task(4, "MEDIUM", NoDeadline, NoSkill)>>}
OccupyStarts == 8..17
OccupyDurations == 1..3

\* the list of the first operator as the strategies initialise it
OpenSchedule ==
    /\ pc = "ready"
    /\ free_list' = InitialSchedules(operators)[1]
    /\ occupied' = <<>>
    /\ pc' = "schedule"
    /\ UNCHANGED <<result, operator_schedules, iteration>>
    /\ UNCHANGED inputVars
    /\ UNCHANGED heuristicVars
    /\ UNCHANGED matchingVars
    /\ UNCHANGED <<validatorVars, schedulerVars, replayVars, peerVars>>
    /\ UNCHANGED <<improveVars, comparisonVars>>

\* _update_operator_schedule(schedule, start_hour, end_hour): it returns
\* None whatever the range is; there is no raise in it
UpdateSchedule ==
    /\ pc = "schedule"
    /\ Len(occupied) < MaxOccupies
    /\ \E start_hour \in OccupyStarts, duration \in OccupyDurations :
        /\ free_list' = _update_operator_schedule(free_list, start_hour,
                                                  start_hour + duration)
        /\ occupied' = Append(occupied, <<start_hour, start_hour + duration>>)
    /\ UNCHANGED <<pc, result, operator_schedules, iteration>>
    /\ UNCHANGED inputVars
    /\ UNCHANGED heuristicVars
    /\ UNCHANGED matchingVars
    /\ UNCHANGED <<validatorVars, schedulerVars, replayVars, peerVars>>
    /\ UNCHANGED <<improveVars, comparisonVars>>

InitOccupy == Constructed(Strategies, {0}, {max_iterations_default})

NextOccupy ==
    \/ Setup(OccupyOperatorLists, OccupyTaskLists)
    \/ OpenSchedule
    \/ UpdateSchedule

SpecOccupy == InitOccupy /\ [][NextOccupy]_vars


\* ---------------------------------------------- models/schedule: comparison
\* execution_time_seconds in units of 1/TimeScale second
TimeScale == 1000
ExecutionTimes == {TimeScale \div 2, TimeScale, TimeScale + TimeScale \div 2}
ComparedTypes == {"linear_programming", "heuristic"}
Metrics == {"total_assigned_hours", "total_tasks_assigned", "execution_time_seconds",
            "average_utilization"}

\* the ScheduleResult objects given to add_result: up to MaxAssignments
\* assignments of a 4-hour and a 5-hour task, and a measured time
ComparedAssignments == {Assignment(1, 1, 9, 4), Assignment(1, 2, 9, 5)}
ComparedResults ==
    {[assignments |-> as, execution_time_seconds |-> x] :
        as \in UNION {[1..n -> ComparedAssignments] : n \in 0..MaxAssignments},
        x \in ExecutionTimes}

get_total_assigned_hours(r) ==
    SumSeq([i \in 1..Len(r.assignments) |-> r.assignments[i].duration_hours])

get_assigned_task_ids(r) == {r.assignments[i].task_id : i \in 1..Len(r.assignments)}

\* lines 125-132: the value compared for one result; <<>> when the metric
\* is none of the three (continue)
MetricValue(r, m) ==
    CASE m = "total_assigned_hours" -> <<get_total_assigned_hours(r) * TimeScale>>
      [] m = "total_tasks_assigned" -> <<Cardinality(get_assigned_task_ids(r)) * TimeScale>>
      [] m = "execution_time_seconds" -> <<0 - r.execution_time_seconds>>
      [] OTHER -> <<>>

\* lines 121-138: the loop over self.results.items() from best_value = -1
RECURSIVE BestAlgorithm(_, _, _)
BestAlgorithm(items, m, best) ==
    IF items = <<>> THEN best.algo
    ELSE LET value == MetricValue(Head(items)[2], m)
         IN BestAlgorithm(Tail(items), m,
                IF value # <<>> /\ value[1] > best.value
                THEN [algo |-> Head(items)[1], value |-> value[1]]
                ELSE best)

\* ScheduleComparison.get_best_algorithm
get_best_algorithm(rs, m) ==
    IF rs = <<>> THEN "None"
    ELSE BestAlgorithm(rs, m, [algo |-> "None", value |-> 0 - TimeScale])

\* ScheduleComparison.add_result
AddResult ==
    /\ \E algorithm_type \in ComparedTypes, r \in ComparedResults :
        comparison_results' = DictSet(comparison_results, algorithm_type, r)
    /\ UNCHANGED <<metric, best_algorithm, best_calls>>
    /\ UNCHANGED <<pc, result, operator_schedules, iteration>>
    /\ UNCHANGED inputVars
    /\ UNCHANGED heuristicVars
    /\ UNCHANGED matchingVars
    /\ UNCHANGED <<validatorVars, schedulerVars, replayVars, peerVars>>
    /\ UNCHANGED <<improveVars, intervalVars>>

\* a call of get_best_algorithm(metric)
GetBestAlgorithm ==
    /\ best_calls < MaxBestCalls
    /\ best_calls' = best_calls + 1
    /\ \E m \in Metrics :
        /\ metric' = m
        /\ best_algorithm' = get_best_algorithm(comparison_results, m)
    /\ UNCHANGED comparison_results
    /\ UNCHANGED <<pc, result, operator_schedules, iteration>>
    /\ UNCHANGED inputVars
    /\ UNCHANGED heuristicVars
    /\ UNCHANGED matchingVars
    /\ UNCHANGED <<validatorVars, schedulerVars, replayVars, peerVars>>
    /\ UNCHANGED <<improveVars, intervalVars>>

InitComparison == Constructed({"heuristic"}, {0}, {0})

NextComparison ==
    \/ AddResult
    \/ GetBestAlgorithm

SpecComparison == InitComparison /\ [][NextComparison]_vars

Returned == pc = "done"
LoopExited == pc \in {"packing", "done"}

NoOperatorOverlap(as) ==
    \A i \in 1..Len(as) : \A j \in 1..Len(as) :
        (i < j /\ as[i].operator_id = as[j].operator_id)
            => (end_hour(as[i]) <= as[j].start_hour \/ end_hour(as[j]) <= as[i].start_hour)

\* C1: in every result a strategy returns, no two assignments of the same
\* operator have intersecting [start_hour, end_hour) intervals.
C1_NoOverlap == Returned => NoOperatorOverlap(result)

\* a returned result of deferred acceptance with two or more assignments
C1_Witness == Returned /\ strategy = "deferred_acceptance" /\ Len(result) >= 2

InsideWindow(a) ==
    /\ a.start_hour * 60 >= operators[a.operator_id].start_min
    /\ end_hour(a) * 60 <= operators[a.operator_id].end_min

\* C2: every assignment of a returned result lies inside the window of its
\* operator, also when the window does not start or end on a whole hour.
C2_InsideWindow == Returned => \A i \in 1..Len(result) : InsideWindow(result[i])

SkillHeld(a) ==
    tasks[a.task_id].required_skill # NoSkill
        => tasks[a.task_id].required_skill \in operators[a.operator_id].skill_set

\* C3: in every returned result, an assignment of a task with a required
\* skill is to an operator whose skill_set contains that skill.
C3_SkillHeld == Returned => \A i \in 1..Len(result) : SkillHeld(result[i])

\* a returned result that assigns a task with a required skill
C3_Witness ==
    Returned /\ \E i \in 1..Len(result) : tasks[result[i].task_id].required_skill # NoSkill

\* C4: in every returned result, no task id appears in two assignments.
C4_TaskOnce ==
    Returned => \A i \in 1..Len(result) : \A j \in 1..Len(result) :
                    result[i].task_id = result[j].task_id => i = j

\* a returned result in which every one of two or more tasks is assigned
C4_Witness == Returned /\ Len(tasks) >= 2 /\ Len(result) = Len(tasks)

AssignedHours(as, o) ==
    SumSeq([i \in 1..Len(as) |-> IF as[i].operator_id = o THEN as[i].duration_hours ELSE 0])

\* C5: in every returned result, the hours assigned to an operator do not
\* exceed its available hours (minutes of its window / 60).
C5_WithinCapacity ==
    Returned => \A o \in OperatorIds :
                    AssignedHours(result, o) * 60 <= get_available_hours_in_minutes(operators[o])

Matched(t) == DictHas(task_operator_matches, t)
MatchOf(t) == DictGet(task_operator_matches, t)
Holds(o) == \E t \in TaskIds : Matched(t) /\ MatchOf(t) = o
HeldBy(o) == CHOOSE t \in TaskIds : Matched(t) /\ MatchOf(t) = o

\* t and o are eligible, not matched to each other, and both would rather
\* have each other than what the matching gives them
BlockingPair(t, o) ==
    /\ o \in Range(task_preferences[t])
    /\ ~(Matched(t) /\ MatchOf(t) = o)
    /\ (~Matched(t)
        \/ IndexOf(task_preferences[t], o) < IndexOf(task_preferences[t], MatchOf(t)))
    /\ (~Holds(o)
        \/ IndexOf(operator_preferences[o], t) < IndexOf(operator_preferences[o], HeldBy(o)))

\* C6: the matching the deferred-acceptance loop returns when it ended with
\* no free task left is stable: it has no blocking pair.
C6_Stable ==
    (LoopExited /\ free_tasks = {})
        => ~(\E t \in TaskIds : \E o \in OperatorIds : BlockingPair(t, o))

ScenarioA ==
    /\ Len(operators) = 1
    /\ hour(operators[1].start_min) = 9 /\ operators[1].start_min = 9 * 60
    /\ operators[1].end_min = 17 * 60
    /\ Len(tasks) = 1
    /\ tasks[1].required_hours = 4
    /\ tasks[1].required_skill = NoSkill

\* C7: Scenario A: one operator with window [9,17) and one 4-hour task
\* without a required skill: the heuristic returns exactly one assignment,
\* of that task to that operator at start hour 9.
C7_ScenarioA ==
    (Returned /\ strategy = "heuristic" /\ ScenarioA)
        => result = <<Assignment(1, 1, 9, 4)>>

ScenarioB ==
    /\ Len(operators) = 1
    /\ get_available_hours_in_minutes(operators[1]) = 8 * 60
    /\ Len(tasks) = 2
    /\ \A t \in TaskIds : tasks[t].required_hours = 5 /\ can_assign(1, t)

\* C8: Scenario B: one operator with an 8-hour window and two 5-hour tasks:
\* the heuristic assigns exactly one of them, one whose priority score is
\* the higher.
C8_ScenarioB ==
    (Returned /\ strategy = "heuristic" /\ ScenarioB)
        => /\ Len(result) = 1
           /\ \A t \in TaskIds :
                  calculate_priority_score(tasks[result[1].task_id])
                      >= calculate_priority_score(tasks[t])

NobodyHasSkill(t) ==
    /\ tasks[t].required_skill # NoSkill
    /\ \A o \in OperatorIds : ~has_skill(operators[o], tasks[t].required_skill)

\* C9: Scenario C: a task whose required skill no operator has is not
\* assigned in the returned result, and validate_result reports no violation
\* for that result.
C9_ScenarioC ==
    Returned => \A t \in TaskIds :
                    NobodyHasSkill(t)
                        => /\ \A i \in 1..Len(result) : result[i].task_id # t
                           /\ validate_result(result) = <<>>

\* a returned result that assigns one task although another task requires a
\* skill nobody has
C9_Witness ==
    Returned /\ result # <<>> /\ \E t \in TaskIds : NobodyHasSkill(t)

ScenarioD ==
    /\ Len(tasks) = 2 /\ Len(operators) = 2
    /\ \A t \in TaskIds : \A o \in OperatorIds : can_assign(o, t)
    /\ \A t \in TaskIds :
           TaskOperatorBase(tasks[t], operators[1]) = TaskOperatorBase(tasks[t], operators[2])
    /\ \A o \in OperatorIds :
           OperatorTaskBase(operators[o], tasks[1]) = OperatorTaskBase(operators[o], tasks[2])

\* C10: Scenario D: deferred acceptance with two tasks and two operators,
\* all eligible and all preferences tied, and a cap of at least
\* |tasks| + |operators|: the loop never runs more than 4 rounds, and when it
\* has ended both tasks are matched, to different operators.
C10_ScenarioD ==
    (strategy = "deferred_acceptance" /\ ScenarioD /\ pc \in {"loop", "packing", "done"}
        /\ max_iterations >= Len(tasks) + Len(operators))
        => /\ iteration <= Len(tasks) + Len(operators)
           /\ LoopExited => /\ free_tasks = {}
                            /\ Matched(1) /\ Matched(2)
                            /\ MatchOf(1) # MatchOf(2)

\* Scenario D ended after a second round: both tasks wanted the same operator
C10_Witness ==
    strategy = "deferred_acceptance" /\ ScenarioD /\ Returned
        /\ max_iterations >= 4 /\ iteration = 2

TaskOnce(as) ==
    \A i \in 1..Len(as) : \A j \in 1..Len(as) : as[i].task_id = as[j].task_id => i = j

WithinCapacity(as) ==
    \A o \in OperatorIds :
        AssignedHours(as, o) * 60 <= get_available_hours_in_minutes(operators[o])

\* the five invariants (a)-(e) of the data model
DataModelInvariants(as) ==
    /\ NoOperatorOverlap(as)
    /\ \A i \in 1..Len(as) : InsideWindow(as[i])
    /\ \A i \in 1..Len(as) : SkillHeld(as[i])
    /\ TaskOnce(as)
    /\ WithinCapacity(as)

\* C11: validate_result returns an empty violation list exactly when the
\* result satisfies all five invariants (a)-(e) of the data model.
C11_ValidatorComplete ==
    calls >= 1 => (errors = <<>> <=> DataModelInvariants(validated))

InputMissing == operators = <<>> \/ tasks = <<>>
DataMissing == scheduler_operators = <<>> \/ scheduler_tasks = <<>>

\* C12: a strategy run with an empty operator or task list raises before
\* its optimisation step is entered, and a run_algorithm call made while the
\* scheduler's operator or task list is empty raises and leaves the
\* scheduler's status, stored results and execution log as they were.
C12_InputError ==
    /\ [][(InputMissing /\ pc \in {"constructed", "ready"}
              /\ pc' \notin {"constructed", "ready"}) => pc' = "error"]_vars
    /\ [][(DataMissing /\ run_calls' # run_calls)
              => /\ outcome'.exit = "ValueError: no data set"
                 /\ status' = status
                 /\ results' = results
                 /\ execution_log' = execution_log]_vars

\* the strategy run raised, and a run_algorithm call raised for missing data
\* after an earlier run had been stored and logged
C12_Witness ==
    /\ pc = "error"
    /\ outcome.exit = "ValueError: no data set"
    /\ DataMissing
    /\ status = "completed" /\ results # <<>> /\ execution_log # <<>>

\* C13: a run_algorithm call for the heuristic or the deferred-acceptance
\* strategy, made with operators and tasks set, starts a run of that
\* strategy instead of raising.
C13_EveryStrategyRuns ==
    [][(~DataMissing /\ run_calls' # run_calls /\ outcome'.algorithm_type \in Strategies)
          => (outcome'.exit = "running" /\ current_algorithm' = outcome'.algorithm_type)]_vars

\* C14: a second run of the same strategy on the same operators, tasks and
\* iteration budget returns the assignment list the first run returned.
C14_Replay == (Returned /\ replayed) => result = previous_result

\* the variables of the first strategy object's run
runVars == <<pc, result, operator_schedules, iteration, heuristicVars, matchingVars>>
\* the variables of the second strategy object's run
peerRunVars == <<peer_pc, peer_result, peer_operator_schedules, peer_gi, peer_best_score,
                 peer_iteration>>

\* non-overlap, window, skill and task-uniqueness
RunInvariants(as) ==
    /\ NoOperatorOverlap(as)
    /\ \A i \in 1..Len(as) : InsideWindow(as[i])
    /\ \A i \in 1..Len(as) : SkillHeld(as[i])
    /\ TaskOnce(as)

\* no step after setup changes the shared lists, and a step of one object
\* changes nothing of the other object's run
RunsIsolated ==
    /\ [][pc # "constructed" => (operators' = operators /\ tasks' = tasks)]_vars
    /\ [][(peerRunVars' # peerRunVars) => (runVars' = runVars)]_vars
    /\ [][(runVars' # runVars) => (peerRunVars' = peerRunVars)]_vars

\* C15: when two strategy objects run interleaved on the same operator and
\* task lists, neither changes the shared lists or the other's free-interval
\* state, and each run's result satisfies the non-overlap, window, skill and
\* task-uniqueness invariants.
C15_Interleaved ==
    /\ RunsIsolated
    /\ []((Returned /\ peer_pc = "done")
              => (RunInvariants(result) /\ RunInvariants(peer_result)))

\* the task has no required skill, or the operator's skill set contains it
Eligible(o, t) ==
    tasks[t].required_skill = NoSkill
        \/ tasks[t].required_skill \in operators[o].skill_set

\* C16: after setup the compatibility index maps every task id to exactly
\* the operators eligible for it, in operator input order (an empty list
\* when nobody is), and can_assign(o, t) holds iff o is in the list of t.
C16_CompatibilityIndex ==
    pc # "constructed"
        => /\ DOMAIN skill_matching = TaskIds
           /\ \A t \in TaskIds :
                /\ \A i \in 1..Len(skill_matching[t]) : \A j \in 1..Len(skill_matching[t]) :
                       i < j => skill_matching[t][i] < skill_matching[t][j]
                /\ Range(skill_matching[t]) = {o \in OperatorIds : Eligible(o, t)}
                /\ \A o \in OperatorIds : can_assign(o, t) <=> Eligible(o, t)
           /\ \A o \in OperatorIds : ~can_assign(o, Len(tasks) + 1)

\* set up with a task nobody can do and a task both operators can do
C16_Witness ==
    /\ pc = "ready"
    /\ \E t \in TaskIds : skill_matching[t] = <<>>
    /\ \E t \in TaskIds : skill_matching[t] = <<1, 2>>

\* some operator eligible for the task has a free interval at least as long
\* as the task's required hours
HasFeasibleSlot(t, schedules) ==
    \E o \in OperatorIds :
        /\ Eligible(o, t)
        /\ \E k \in 1..Len(schedules[o]) :
               schedules[o][k][2] - schedules[o][k][1] >= tasks[t].required_hours

\* C18: each pass of Construct assigns the task it considers, to an
\* eligible operator, whenever some eligible operator has a free interval
\* long enough for it, and leaves it unassigned only otherwise.
C18_ConstructAssigns ==
    [][(pc = "greedy" /\ gi' = gi + 1)
          => LET t == sorted_tasks[gi] IN
             IF HasFeasibleSlot(t, operator_schedules)
             THEN /\ Len(result') = Len(result) + 1
                  /\ result'[Len(result')].task_id = t
                  /\ Eligible(result'[Len(result')].operator_id, t)
             ELSE result' = result]_vars

\* C19: whenever the task an operator holds changes in the matching loop,
\* the operator ranks the new task strictly above the old one in its
\* preference list, and the old task is back in the free set.
C19_ReleaseOnlyForBetter ==
    [][pc = "loop"
          => \A o \in OperatorIds :
                (DictHas(matches, o) /\ DictHas(matches', o)
                    /\ DictGet(matches', o) # DictGet(matches, o))
                    => /\ IndexOf(operator_preferences[o], DictGet(matches', o))
                            < IndexOf(operator_preferences[o], DictGet(matches, o))
                       /\ DictGet(matches, o) \in free_tasks']_vars

Larger(a, b) == IF a >= b THEN a ELSE b

\* C20: with an iteration cap of at least max(|tasks|, |operators|) the
\* matching loop never exits while a task is still in the free set.
C20_ConvergesWithinMax ==
    (LoopExited /\ max_iterations >= Larger(Len(tasks), Len(operators)))
        => free_tasks = {}

\* C20 as amended: with an iteration cap of at least |tasks| x |operators| + 1
\* the matching loop never exits while a task is still in the free set.
C20_ConvergesWithinProduct ==
    (LoopExited /\ max_iterations >= Len(tasks) * Len(operators) + 1)
        => free_tasks = {}

\* the loop ended with an empty free set after more than max(|tasks|,
\* |operators|) rounds, under a cap of at least |tasks| x |operators| + 1
C20_Witness ==
    /\ LoopExited
    /\ max_iterations >= Len(tasks) * Len(operators) + 1
    /\ iteration > Larger(Len(tasks), Len(operators))
    /\ free_tasks = {}

\* invariants (a)-(d) of the data model
FeasibleAssignments(as) ==
    /\ NoOperatorOverlap(as)
    /\ \A i \in 1..Len(as) : InsideWindow(as[i])
    /\ \A i \in 1..Len(as) : SkillHeld(as[i])
    /\ TaskOnce(as)

\* C21: every candidate a neighbourhood move produces from a result that
\* satisfies invariants (a)-(d) satisfies (a)-(d) as well.
C21_MovesKeepFeasible ==
    [][(pc = "improve" /\ iteration' = iteration + 1 /\ improved_result'.some
            /\ FeasibleAssignments(result))
          => FeasibleAssignments(improved_result'.assignments)]_vars

\* C22: while Improve runs and when it has returned, the current best result
\* satisfies invariants (a)-(e) if the result Improve was given satisfies them.
C22_ImproveKeepsInvariants ==
    (pc \in {"improve", "done"} /\ DataModelInvariants(improve_input))
        => DataModelInvariants(result)

\* C26: Improve returns exactly the assignments it was given when no operator
\* is over capacity in them.
C26_ImproveChangesNothing ==
    (Returned /\ WithinCapacity(improve_input)) => result = improve_input

\* position of the pair of task t in the order packing takes the matched
\* pairs in: descending priority score, equal scores in dict order
PackingPosition(t) ==
    LET k == CHOOSE i \in 1..Len(task_operator_matches) : task_operator_matches[i][1] = t
    IN 1 + Cardinality({j \in 1..Len(task_operator_matches) :
            LET sj == calculate_priority_score(tasks[task_operator_matches[j][1]])
                sk == calculate_priority_score(tasks[t])
            IN sj > sk \/ (sj = sk /\ j < k)})

\* hours of operator o's list that no assignment of as to o covers
FreeHours(o, as) ==
    {h \in hour(operators[o].start_min)..(hour(operators[o].end_min) - 1) :
        \A i \in 1..Len(as) :
            as[i].operator_id = o => ~(as[i].start_hour <= h /\ h < end_hour(as[i]))}

\* starts of the maximal runs of hours in F that are at least d hours long
FittingStarts(F, d) ==
    {s \in F : (s - 1) \notin F /\ \A h \in s..(s + d - 1) : h \in F}

Least(S) == CHOOSE x \in S : \A y \in S : x <= y

\* as is what packing the matched pairs gives: tasks in packing order, each
\* on its matched operator at the start of the first free interval of at
\* least required_hours, left out exactly when there is none
PackedFirstFit(as) ==
    LET position == [t \in TaskIds |-> IF Matched(t) THEN PackingPosition(t) ELSE 0]
    IN /\ \A i \in 1..Len(as) : Matched(as[i].task_id)
       /\ \A i \in 1..Len(as) : \A j \in 1..Len(as) :
             i < j => position[as[i].task_id] < position[as[j].task_id]
       /\ \A t \in TaskIds : Matched(t) =>
             LET earlier == SelectSeq(as, LAMBDA a : position[a.task_id] < position[t])
                 free == FreeHours(MatchOf(t), earlier)
                 starts == FittingStarts(free, tasks[t].required_hours)
                 placed == SelectSeq(as, LAMBDA a : a.task_id = t)
             IN IF starts = {}
                THEN placed = <<>>
                ELSE placed = <<Assignment(MatchOf(t), t, Least(starts),
                                           tasks[t].required_hours)>>

\* C23: packing takes the matched pairs in descending priority score; each
\* task goes to its matched operator at the start of that operator's first
\* free interval of at least required_hours, and is left out exactly when
\* there is no such interval; the call returns in every case.
C23_PackingFirstFit ==
    /\ [][pc = "packing" => pc' = "done"]_vars
    /\ [](Returned => PackedFirstFit(result))

\* packing returned a result in which one operator got a second task after
\* its first one and a third matched task was left out
C23_Witness ==
    /\ Returned
    /\ Len(task_operator_matches) = 3
    /\ Len(result) = 2
    /\ result[1].operator_id = result[2].operator_id
    /\ result[2].start_hour = end_hour(result[1])

\* the range r lies in the k-th interval of the list
InsideSlot(list, k, r) == r[1] >= list[k][1] /\ r[2] <= list[k][2]

\* C24: an update of the free-interval list with a range that no single free
\* interval contains ends in an error.
C24_OccupyFailsOutside ==
    [][(pc = "schedule" /\ Len(occupied') = Len(occupied) + 1
            /\ ~\E k \in 1..Len(free_list) :
                    InsideSlot(free_list, k, occupied'[Len(occupied')]))
          => pc' = "error"]_vars

\* sorted by start, non-empty, pairwise disjoint, inside the window
WellFormedList(list) ==
    /\ \A k \in 1..Len(list) :
          /\ list[k][1] < list[k][2]
          /\ list[k][1] >= hour(operators[1].start_min)
          /\ list[k][2] <= hour(operators[1].end_min)
    /\ \A k \in 1..(Len(list) - 1) : list[k][2] <= list[k + 1][1]

\* the residual pieces of slot after taking the range r out of it
Residual(slot, r) ==
    (IF r[1] > slot[1] THEN << <<slot[1], r[1]>> >> ELSE <<>>)
        \o (IF r[2] < slot[2] THEN << <<r[2], slot[2]>> >> ELSE <<>>)

\* C25: after any sequence of updates from the full window the list is
\* sorted by start, its intervals are non-empty, disjoint and inside the
\* window; an update with a range inside a free interval replaces that
\* interval by its residual pieces and leaves the others as they were.
C25_ListWellFormed ==
    /\ [](pc = "schedule" => WellFormedList(free_list))
    /\ [][(pc = "schedule" /\ Len(occupied') = Len(occupied) + 1)
            => \A k \in 1..Len(free_list) :
                  InsideSlot(free_list, k, occupied'[Len(occupied')])
                    => free_list' = SubSeq(free_list, 1, k - 1)
                                      \o Residual(free_list[k], occupied'[Len(occupied')])
                                      \o SubSeq(free_list, k + 1, Len(free_list))]_vars

\* the list was split twice: three free intervals after two or more updates
C25_Witness == pc = "schedule" /\ Len(occupied) >= 2 /\ Len(free_list) = 3

\* number of (task, operator) rejections recorded so far
TotalRejections(rej) == SumSeq([t \in 1..Len(rej) |-> Cardinality(rej[t])])

\* C27: every round of the matching loop either records a new rejection or
\* ends with an empty free set, and the loop never runs more than
\* |tasks| x |operators| + 1 rounds, however large the cap is.
C27_RoundsBounded ==
    /\ [][(pc = "loop" /\ iteration' = iteration + 1)
            => (TotalRejections(rejected_by') > TotalRejections(rejected_by)
                    \/ free_tasks' = {})]_vars
    /\ [](iteration <= Len(tasks) * Len(operators) + 1)

\* the loop is in its fourth round or later under the default cap, with a
\* task still free and four or more rejections recorded
C27_Witness ==
    /\ pc = "loop"
    /\ max_iterations = max_iterations_default
    /\ iteration >= 3
    /\ free_tasks # {}
    /\ TotalRejections(rejected_by) >= 4

\* C28: at the end of every round, and in the matching the loop returns,
\* each operator holds at most one task, each task is held by at most one
\* operator, every held pair is skill-eligible, no held task is free and no
\* task is held by an operator of its rejection set.
C28_MatchingConsistent ==
    /\ [](pc \in {"loop", "packing", "done"} =>
            /\ \A i \in 1..Len(matches) : \A j \in 1..Len(matches) :
                  (matches[i][1] = matches[j][1] \/ matches[i][2] = matches[j][2]) => i = j
            /\ \A i \in 1..Len(matches) :
                  /\ Eligible(matches[i][1], matches[i][2])
                  /\ matches[i][2] \notin free_tasks
                  /\ matches[i][1] \notin rejected_by[matches[i][2]])
    /\ [](pc \in {"packing", "done"} =>
            /\ Len(task_operator_matches) = Len(matches)
            /\ \A i \in 1..Len(matches) :
                  /\ Matched(matches[i][2])
                  /\ MatchOf(matches[i][2]) = matches[i][1])

\* the loop stopped at the cap with a task still free while an operator
\* holds a task that requires a skill
C28_Witness ==
    /\ pc = "packing"
    /\ free_tasks # {}
    /\ iteration = max_iterations
    /\ iteration >= 2
    /\ \E i \in 1..Len(matches) : tasks[matches[i][2]].required_skill # NoSkill

SupportedMetrics ==
    {"total_assigned_hours", "total_tasks_assigned", "execution_time_seconds"}

\* algorithm a is stored and no stored result is better than its result
\* under metric m
BestUnder(rs, m, a) ==
    /\ DictHas(rs, a)
    /\ \A i \in 1..Len(rs) :
          CASE m = "total_assigned_hours" ->
                   get_total_assigned_hours(rs[i][2])
                       <= get_total_assigned_hours(DictGet(rs, a))
            [] m = "total_tasks_assigned" ->
                   Cardinality(get_assigned_task_ids(rs[i][2]))
                       <= Cardinality(get_assigned_task_ids(DictGet(rs, a)))
            [] OTHER ->
                   rs[i][2].execution_time_seconds
                       >= DictGet(rs, a).execution_time_seconds

\* C30: get_best_algorithm with a supported metric on a non-empty set of
\* results returns an algorithm whose metric is the best of the stored
\* results; it returns None only when there are no results.
C30_BestAlgorithm ==
    [][(best_calls' = best_calls + 1 /\ metric' \in SupportedMetrics)
          => IF comparison_results = <<>>
             THEN best_algorithm' = "None"
             ELSE BestUnder(comparison_results, metric', best_algorithm')]_vars

====
